---- MODULE Spec2Model ----
(***************************************************************************)
(* echoDialy: the Gemini client's retry loop (GeminiClient.generateImage)  *)
(* and the JSON file storage (loadDiaries, writeStorage, saveDiary,        *)
(* updateDiary, deleteDiary, rebuildIndex).                                *)
(*                                                                         *)
(* Strings are sequences of one-character strings, so that trimming,       *)
(* pattern tests and concatenation are computed.  An error message is a    *)
(* sequence of words, and String.includes is membership of a word.         *)
(***************************************************************************)
EXTENDS Integers, Sequences, FiniteSets, TLC

VARIABLES
    \* ---- GeminiClient ----
    config,     \* this.config after the constructor
    rpc,        \* position of generateImage: idle, call, sleep, returned, thrown
    attempt,    \* the loop variable of generateImage
    lastError,  \* the local lastError of generateImage
    result,     \* what generateImage returned or threw
    log,        \* remote calls and backoff sleeps, in the order they were started
    \* ---- storage ----
    file,       \* the file at the storage path
    temp,       \* the file at the storage path + ".tmp"
    dir,        \* TRUE when the directory of the storage path exists
    now,        \* the latest reading of the clock (milliseconds)
    calls,      \* the number of storage operations called so far
    pc,         \* per invocation: where the storage operation is
    op,         \* per invocation: the operation called and its arguments
    mem,        \* per invocation: the local `storage` of the operation
    ret,        \* per invocation: what the operation returned or threw
    \* ---- storage queries ----
    query,      \* the query operation or prompts function called, its arguments
    answer,     \* what that call returned or threw
    \* ---- command line ----
    cli         \* the command run, where it is, the environment, its exit status

retryVars == <<config, rpc, attempt, lastError, result, log>>

storageVars == <<file, temp, dir, now, calls, pc, op, mem, ret>>

queryVars == <<query, answer>>

cliVars == <<cli>>

vars == <<config, rpc, attempt, lastError, result, log,
          file, temp, dir, now, calls, pc, op, mem, ret, query, answer, cli>>

(***************************************************************************)
(* Bounds                                                                  *)
(***************************************************************************)
MaxRetriesBound == 3
MaxCalls == 3
MaxStored == 3
MaxLimit == 3
MaxRacingCalls == 2
MaxVariationsBound == 3

(***************************************************************************)
(* Strings and objects                                                     *)
(***************************************************************************)
\* the value undefined; no string holds this token
Undefined == <<"undefined">>

Whitespace == {" "}

Digits == {"0", "1", "2", "3", "4", "5", "6", "7", "8", "9"}

Base36Chars ==
    <<"0", "1", "2", "3", "4", "5", "6", "7", "8", "9", "a", "b", "c", "d", "e", "f",
      "g", "h", "i", "j", "k", "l", "m", "n", "o", "p", "q", "r", "s", "t", "u", "v",
      "w", "x", "y", "z">>

RECURSIVE TrimStart(_)
TrimStart(s) ==
    IF s # <<>> /\ Head(s) \in Whitespace THEN TrimStart(Tail(s)) ELSE s

RECURSIVE TrimEnd(_)
TrimEnd(s) ==
    IF s # <<>> /\ s[Len(s)] \in Whitespace
        THEN TrimEnd(SubSeq(s, 1, Len(s) - 1))
        ELSE s

\* String.prototype.trim
Trim(s) == TrimEnd(TrimStart(s))

\* !v for a value that is a string or undefined
Falsy(v) == v = Undefined \/ v = <<>>

\* o.k: undefined when the object has no such key
Get(o, k) == IF k \in DOMAIN o THEN o[k] ELSE Undefined

\* { ...a, ...b }: every own key of b, present with the value undefined
\* included, overrides a
Spread(a, b) ==
    [k \in DOMAIN a \cup DOMAIN b |-> IF k \in DOMAIN b THEN b[k] ELSE a[k]]

Obj(r) == [k \in DOMAIN r |-> r[k]]

EmptyObject == [k \in {} |-> Undefined]

\* new Date(t).toISOString(): fixed width, so that string order is time order
ToISOString(t) == <<"T", Base36Chars[(t \div 10) + 1], Base36Chars[(t % 10) + 1]>>

RECURSIVE ToString36(_)
\* Number.prototype.toString(36), over the digits the clock reaches
ToString36(n) ==
    IF n < 36 THEN <<Base36Chars[n + 1]>>
    ELSE ToString36(n \div 36) \o <<Base36Chars[(n % 36) + 1]>>

(***************************************************************************)
(* Storage: documents and files                                            *)
(***************************************************************************)
STORAGE_VERSION == <<"1", ".", "0", ".", "0">>

BlankDoc == [version |-> <<>>, diaries |-> <<>>, lastModified |-> <<>>]

NoFile == [kind |-> "absent", doc |-> BlankDoc]

PartialFile == [kind |-> "partial", doc |-> BlankDoc]

JsonFile(doc) == [kind |-> "json", doc |-> doc]

\* a file holding well-formed JSON that has no "diaries" array
NoDiariesFile == [kind |-> "noDiaries", doc |-> BlankDoc]

\* JSON.stringify of one entry: keys whose value is undefined are left out
StringifyEntry(o) == [k \in {x \in DOMAIN o : o[x] # Undefined} |-> o[k]]

\* JSON.stringify(storage, null, 2): the document the text denotes
JSONstringify(storage) ==
    [version |-> storage.version,
     diaries |-> [i \in 1..Len(storage.diaries) |-> StringifyEntry(storage.diaries[i])],
     lastModified |-> storage.lastModified]

createEmptyStorage(t) ==
    [version |-> STORAGE_VERSION, diaries |-> <<>>, lastModified |-> ToISOString(t)]

\* faulty variant: a missing file is an error like any other
loadDiariesRethrowsENOENT(f, t) ==
    IF f.kind = "absent"
        THEN [ok |-> FALSE, error |-> "ENOENT", storage |-> BlankDoc]
    ELSE IF f.kind = "json"
        THEN [ok |-> TRUE, error |-> "", storage |-> f.doc]
    ELSE IF f.kind = "noDiaries"
        THEN [ok |-> FALSE, error |-> "Invalid storage format", storage |-> BlankDoc]
    ELSE [ok |-> FALSE, error |-> "SyntaxError", storage |-> BlankDoc]

\* faulty variant: every failure to load is answered with an empty storage
loadDiariesEmptyOnAnyError(f, t) ==
    IF f.kind = "json"
        THEN [ok |-> TRUE, error |-> "", storage |-> f.doc]
    ELSE [ok |-> TRUE, error |-> "", storage |-> createEmptyStorage(t)]

\* loadDiaries: the storage read from file f at time t, or the error thrown
\* (a file cut short is malformed JSON: JSON.parse throws a SyntaxError)
loadDiaries(f, t) ==
    IF f.kind = "absent"
        THEN [ok |-> TRUE, error |-> "", storage |-> createEmptyStorage(t)]
    ELSE IF f.kind = "json"
        THEN [ok |-> TRUE, error |-> "", storage |-> f.doc]
    ELSE IF f.kind = "noDiaries"
        THEN [ok |-> FALSE, error |-> "Invalid storage format", storage |-> BlankDoc]
    ELSE [ok |-> FALSE, error |-> "SyntaxError", storage |-> BlankDoc]

\* generateEntryId(date) at time t with the random suffix drawn
generateEntryId(date, t, random) ==
    date \o <<"-">> \o ToString36(t) \o <<"-">> \o random

\* /^\d{4}-\d{2}-\d{2}$/.test(date)
MatchesDatePattern(date) ==
    /\ Len(date) = 10
    /\ \A i \in 1..10 : IF i \in {5, 8} THEN date[i] = "-" ELSE date[i] \in Digits

\* faulty variant: the prompt is not checked
validateEntryNoPromptCheck(entry) ==
    IF Falsy(Get(entry, "audioText")) \/ Trim(Get(entry, "audioText")) = <<>>
        THEN "audioText is required and cannot be empty"
    ELSE IF Falsy(Get(entry, "imagePath")) \/ Trim(Get(entry, "imagePath")) = <<>>
        THEN "imagePath is required and cannot be empty"
    ELSE IF Falsy(Get(entry, "date")) \/ ~MatchesDatePattern(Get(entry, "date"))
        THEN "date must be in YYYY-MM-DD format"
    ELSE ""

\* validateEntry: the message of the error thrown, "" when none is thrown
validateEntry(entry) ==
    IF Falsy(Get(entry, "audioText")) \/ Trim(Get(entry, "audioText")) = <<>>
        THEN "audioText is required and cannot be empty"
    ELSE IF Falsy(Get(entry, "imagePath")) \/ Trim(Get(entry, "imagePath")) = <<>>
        THEN "imagePath is required and cannot be empty"
    ELSE IF Falsy(Get(entry, "prompt")) \/ Trim(Get(entry, "prompt")) = <<>>
        THEN "prompt is required and cannot be empty"
    ELSE IF Falsy(Get(entry, "date")) \/ ~MatchesDatePattern(Get(entry, "date"))
        THEN "date must be in YYYY-MM-DD format"
    ELSE ""

\* diaries.findIndex((entry) => entry.id === id): 0 stands for -1
FindIndex(diaries, id) ==
    IF \E i \in DOMAIN diaries : Get(diaries[i], "id") = id
        THEN CHOOSE i \in DOMAIN diaries :
                /\ Get(diaries[i], "id") = id
                /\ \A j \in 1..(i - 1) : Get(diaries[j], "id") # id
        ELSE 0

\* diaries.splice(index, 1) for index >= 1
Splice(diaries, index) ==
    SubSeq(diaries, 1, index - 1) \o SubSeq(diaries, index + 1, Len(diaries))

CharOrder ==
    <<" ", "-", "0", "1", "2", "3", "4", "5", "6", "7", "8", "9",
      "a", "A", "b", "B", "c", "C", "h", "p", "q", "T", "w", "x", "y">>

CharRank(c) == CHOOSE i \in DOMAIN CharOrder : CharOrder[i] = c

RECURSIVE localeCompare(_, _)
\* a.localeCompare(b): negative, zero or positive
localeCompare(a, b) ==
    IF a = <<>> /\ b = <<>> THEN 0
    ELSE IF a = <<>> THEN -1
    ELSE IF b = <<>> THEN 1
    ELSE IF Head(a) = Head(b) THEN localeCompare(Tail(a), Tail(b))
    ELSE IF CharRank(Head(a)) < CharRank(Head(b)) THEN -1 ELSE 1

RECURSIVE InsertByDate(_, _)
InsertByDate(sorted, e) ==
    IF sorted = <<>> THEN <<e>>
    ELSE IF localeCompare(Get(sorted[Len(sorted)], "date"), Get(e, "date")) <= 0
        THEN Append(sorted, e)
    ELSE Append(InsertByDate(SubSeq(sorted, 1, Len(sorted) - 1), e), sorted[Len(sorted)])

RECURSIVE SortByDate(_)
\* diaries.sort((a, b) => a.date.localeCompare(b.date)), a stable sort
SortByDate(diaries) ==
    IF diaries = <<>> THEN <<>>
    ELSE InsertByDate(SortByDate(SubSeq(diaries, 1, Len(diaries) - 1)),
                      diaries[Len(diaries)])

(***************************************************************************)
(* Storage: the bodies of the operations, after loadDiaries has resolved   *)
(***************************************************************************)
WritePlan(storage, tag, entry) ==
    [act |-> "write", storage |-> storage, tag |-> tag, entry |-> entry]

ReturnPlan(tag) ==
    [act |-> "return", storage |-> BlankDoc, tag |-> tag, entry |-> EmptyObject]

ThrowPlan(message) ==
    [act |-> "throw", storage |-> BlankDoc, tag |-> message, entry |-> EmptyObject]

\* the entry saveDiary builds: { ...entry, id, createdAt }
NewEntry(entry, t, random) ==
    Spread(entry, Obj([id |-> generateEntryId(Get(entry, "date"), t, random),
                       createdAt |-> ToISOString(t)]))

\* faulty variant: the new entry is put first
saveDiaryUnshift(entry, storage, t, random) ==
    WritePlan([storage EXCEPT !.diaries = <<NewEntry(entry, t, random)>> \o @],
              "entry", NewEntry(entry, t, random))

\* saveDiary after validation and load: push the new entry, write, return it
saveDiaryBody(entry, storage, t, random) ==
    WritePlan([storage EXCEPT !.diaries = Append(@, NewEntry(entry, t, random))],
              "entry", NewEntry(entry, t, random))

\* faulty variant: an updatedAt among the update fields is kept
UpdatedEntryKeepsSuppliedUpdatedAt(existing, updates, t) ==
    Spread(Spread(Spread(existing, Obj([updatedAt |-> ToISOString(t)])), updates),
           Obj([id |-> Get(existing, "id"),
                createdAt |-> Get(existing, "createdAt")]))

\* the entry updateDiary builds:
\* { ...existing, ...updates, id: existing.id, createdAt: existing.createdAt, updatedAt }
UpdatedEntry(existing, updates, t) ==
    Spread(Spread(existing, updates),
           Obj([id |-> Get(existing, "id"),
                createdAt |-> Get(existing, "createdAt"),
                updatedAt |-> ToISOString(t)]))

\* faulty variant: the update fields are spread last
updateDiaryUpdatesLast(id, updates, storage, t) ==
    LET index == FindIndex(storage.diaries, id)
        merged == Spread(Spread(storage.diaries[index],
                                Obj([updatedAt |-> ToISOString(t)])), updates)
    IN  IF index = 0 THEN ReturnPlan("null")
        ELSE IF validateEntry(updates) # "" THEN ThrowPlan(validateEntry(updates))
        ELSE WritePlan([storage EXCEPT !.diaries[index] = merged], "entry", merged)

\* faulty variant: the update fields are validated before the id is looked up
updateDiaryValidatesFirst(id, updates, storage, t) ==
    LET index == FindIndex(storage.diaries, id)
    IN  IF validateEntry(updates) # "" THEN ThrowPlan(validateEntry(updates))
        ELSE IF index = 0 THEN ReturnPlan("null")
        ELSE WritePlan([storage EXCEPT !.diaries[index] =
                            UpdatedEntry(storage.diaries[index], updates, t)],
                       "entry", UpdatedEntry(storage.diaries[index], updates, t))

\* updateDiary after load
updateDiaryBody(id, updates, storage, t) ==
    LET index == FindIndex(storage.diaries, id)
    IN  IF index = 0 THEN ReturnPlan("null")
        ELSE IF validateEntry(updates) # "" THEN ThrowPlan(validateEntry(updates))
        ELSE WritePlan([storage EXCEPT !.diaries[index] =
                            UpdatedEntry(storage.diaries[index], updates, t)],
                       "entry", UpdatedEntry(storage.diaries[index], updates, t))

\* faulty variant: splice(-1, 1) runs when the id is not found
deleteDiaryNoIndexCheck(id, storage) ==
    LET index == FindIndex(storage.diaries, id)
    IN  IF index = 0 /\ storage.diaries = <<>> THEN ReturnPlan("false")
        ELSE IF index = 0
            THEN WritePlan([storage EXCEPT !.diaries = Splice(@, Len(@))],
                           "true", EmptyObject)
        ELSE WritePlan([storage EXCEPT !.diaries = Splice(@, index)], "true", EmptyObject)

\* faulty variant: every entry with the id is removed
deleteDiaryRemovesEveryMatch(id, storage) ==
    LET index == FindIndex(storage.diaries, id)
    IN  IF index = 0 THEN ReturnPlan("false")
        ELSE WritePlan([storage EXCEPT !.diaries =
                           SelectSeq(@, LAMBDA e : Get(e, "id") # id)],
                       "true", EmptyObject)

\* deleteDiary after load
deleteDiaryBody(id, storage) ==
    LET index == FindIndex(storage.diaries, id)
    IN  IF index = 0 THEN ReturnPlan("false")
        ELSE WritePlan([storage EXCEPT !.diaries = Splice(@, index)], "true", EmptyObject)

\* rebuildIndex after load: sort by date, give every entry a new id
rebuildIndexBody(storage, t, randoms) ==
    LET sorted == SortByDate(storage.diaries)
    IN  WritePlan([storage EXCEPT !.diaries =
                      [i \in 1..Len(sorted) |->
                          Spread(sorted[i],
                                 Obj([id |-> generateEntryId(Get(sorted[i], "date"),
                                                             t, randoms[i])]))]],
                  "void", EmptyObject)

(***************************************************************************)
(* Storage: inputs                                                         *)
(***************************************************************************)
Procs == {1, 2}

\* the invocations that run in the sequential specification
Sequential == {1}

Date1 == <<"2", "0", "2", "4", "-", "0", "1", "-", "0", "2">>

Date2 == <<"2", "0", "2", "4", "-", "0", "1", "-", "0", "1">>

BadDate == <<"2", "0", "2", "4", "-", "1", "-", "1">>

RandomSuffixes == {<<"x">>, <<"y">>}

ValidEntry1 ==
    Obj([date |-> Date1, audioText |-> <<"a">>, imagePath |-> <<"p">>,
         prompt |-> <<"q">>, style |-> <<"w">>, mood |-> <<"h">>])

ValidEntry2 ==
    Obj([date |-> Date2, audioText |-> <<" ", "b">>, imagePath |-> <<"p">>,
         prompt |-> <<"q">>, style |-> Undefined])

InvalidEntries ==
    {Spread(ValidEntry1, Obj([audioText |-> <<" ", " ">>])),
     Spread(ValidEntry1, Obj([imagePath |-> Undefined])),
     Spread(ValidEntry1, Obj([prompt |-> <<>>])),
     Spread(ValidEntry1, Obj([date |-> BadDate])),
     Obj([audioText |-> <<"a">>, imagePath |-> <<"p">>, prompt |-> <<"q">>])}

SaveInputs == {ValidEntry1, ValidEntry2} \cup InvalidEntries

\* a full update that also carries id, createdAt and updatedAt
FullUpdate ==
    Obj([id |-> <<"x">>, createdAt |-> <<"T", "9", "9">>, updatedAt |-> <<"T", "0", "0">>,
         date |-> Date2, audioText |-> <<"c">>, imagePath |-> <<"p">>,
         prompt |-> <<"q">>, mood |-> <<"c">>])

UpdateInputs ==
    {FullUpdate,
     Obj([mood |-> <<"c">>]),
     Spread(FullUpdate, Obj([prompt |-> <<" ">>])),
     Spread(FullUpdate, Obj([date |-> BadDate]))}

MissingId == <<"n", "o">>

StoredIds ==
    IF file.kind = "json"
        THEN {Get(file.doc.diaries[i], "id") : i \in DOMAIN file.doc.diaries}
        ELSE {}

NoOp == [kind |-> "none", entry |-> EmptyObject, id |-> <<>>]

NoResult == [status |-> "none", tag |-> "", entry |-> EmptyObject, storage |-> BlankDoc]

Settled(status, tag, entry, storage) ==
    [status |-> status, tag |-> tag, entry |-> entry, storage |-> storage]

(***************************************************************************)
(* Storage: the steps of an invocation                                     *)
(***************************************************************************)
\* an operation is called: its synchronous prefix runs up to the first await
Call(p, o, threw) ==
    /\ pc[p] = "idle"
    /\ calls < MaxCalls
    /\ calls' = calls + 1
    /\ op' = [op EXCEPT ![p] = o]
    /\ mem' = [mem EXCEPT ![p] = BlankDoc]
    /\ IF threw # ""
         THEN /\ pc' = [pc EXCEPT ![p] = "threw"]
              /\ ret' = [ret EXCEPT ![p] = Settled("threw", threw, EmptyObject, BlankDoc)]
         ELSE /\ pc' = [pc EXCEPT ![p] = "load"]
              /\ ret' = [ret EXCEPT ![p] = NoResult]
    /\ UNCHANGED <<file, temp, dir, now>>
    /\ UNCHANGED retryVars
    /\ UNCHANGED queryVars
    /\ UNCHANGED cliVars

\* saveDiary(entry): validateEntry(entry), then await loadDiaries
SaveDiaryCall(p) ==
    /\ pc[p] = "idle"
    /\ \E entry \in SaveInputs :
         Call(p, [kind |-> "save", entry |-> entry, id |-> <<>>], validateEntry(entry))

\* updateDiary(id, updates): await loadDiaries
UpdateDiaryCall(p) ==
    \E id \in StoredIds \cup {MissingId}, updates \in UpdateInputs :
        Call(p, [kind |-> "update", entry |-> updates, id |-> id], "")

\* deleteDiary(id): await loadDiaries
DeleteDiaryCall(p) ==
    \E id \in StoredIds \cup {MissingId} :
        Call(p, [kind |-> "delete", entry |-> EmptyObject, id |-> id], "")

\* rebuildIndex(): await loadDiaries
RebuildIndexCall(p) ==
    /\ pc[p] = "idle"
    /\ Call(p, [kind |-> "rebuildIndex", entry |-> EmptyObject, id |-> <<>>], "")

\* loadDiaries() called on its own
LoadDiariesCall(p) ==
    /\ pc[p] = "idle"
    /\ Call(p, [kind |-> "load", entry |-> EmptyObject, id |-> <<>>], "")

\* the random suffixes an operation draws: one for saveDiary, one for each
\* stored entry for rebuildIndex
RandomDraws(o, storage) ==
    IF o.kind = "save" THEN {1}
    ELSE IF o.kind = "rebuildIndex" THEN DOMAIN storage.diaries
    ELSE {}

\* what the operation does once loadDiaries has resolved with `storage`
Plan(o, storage, t, randoms) ==
    IF o.kind = "save" THEN saveDiaryBody(o.entry, storage, t, randoms[1])
    ELSE IF o.kind = "update" THEN updateDiaryBody(o.id, o.entry, storage, t)
    ELSE IF o.kind = "delete" THEN deleteDiaryBody(o.id, storage)
    ELSE rebuildIndexBody(storage, t, randoms)

\* writeStorage, first line: storage.lastModified = new Date().toISOString()
StampLastModified(storage, t) == [storage EXCEPT !.lastModified = ToISOString(t)]

\* fs.readFile settles inside loadDiaries; the operation runs on up to the
\* await fs.mkdir of writeStorage, or to its return or throw before that.
\* Every clock reading of an operation is made in this synchronous stretch:
\* the clock shows t, the last reading or one millisecond more.
ReadFileSettles(p) ==
    /\ pc[p] = "load"
    /\ \E t \in {now, now + 1} :
       /\ now' = t
       /\ LET loaded == loadDiaries(file, t)
          IN  IF ~loaded.ok
                THEN /\ pc' = [pc EXCEPT ![p] = "threw"]
                     /\ ret' = [ret EXCEPT ![p] =
                                   Settled("threw", loaded.error, EmptyObject, BlankDoc)]
                     /\ UNCHANGED mem
              ELSE IF op[p].kind = "load"
                THEN /\ pc' = [pc EXCEPT ![p] = "returned"]
                     /\ ret' = [ret EXCEPT ![p] =
                                   Settled("returned", "storage", EmptyObject, loaded.storage)]
                     /\ UNCHANGED mem
              ELSE \E randoms \in [RandomDraws(op[p], loaded.storage) -> RandomSuffixes] :
                     LET plan == Plan(op[p], loaded.storage, t, randoms)
                     IN  IF plan.act = "write"
                           THEN /\ pc' = [pc EXCEPT ![p] = "mkdir"]
                                /\ mem' = [mem EXCEPT ![p] = StampLastModified(plan.storage, t)]
                                /\ ret' = [ret EXCEPT ![p] =
                                              Settled("none", plan.tag, plan.entry, BlankDoc)]
                           ELSE /\ pc' = [pc EXCEPT ![p] =
                                             IF plan.act = "return" THEN "returned" ELSE "threw"]
                                /\ ret' = [ret EXCEPT ![p] =
                                              Settled(pc'[p], plan.tag, EmptyObject, BlankDoc)]
                                /\ UNCHANGED mem
    /\ UNCHANGED <<file, temp, dir, calls, op>>
    /\ UNCHANGED retryVars
    /\ UNCHANGED queryVars
    /\ UNCHANGED cliVars

Fail(p, code) ==
    /\ pc' = [pc EXCEPT ![p] = "threw"]
    /\ ret' = [ret EXCEPT ![p] = Settled("threw", code, EmptyObject, BlankDoc)]

\* await fs.mkdir(dir, { recursive: true }) resolves
MkdirSettles(p) ==
    /\ pc[p] = "mkdir"
    /\ dir' = TRUE
    /\ pc' = [pc EXCEPT ![p] = "writeFile"]
    /\ UNCHANGED <<file, temp, now, calls, op, mem, ret>>
    /\ UNCHANGED retryVars
    /\ UNCHANGED queryVars
    /\ UNCHANGED cliVars

\* fs.mkdir rejects, or the process stops there
MkdirFails(p) ==
    /\ pc[p] = "mkdir"
    /\ Fail(p, "EACCES")
    /\ UNCHANGED <<file, temp, dir, now, calls, op, mem>>
    /\ UNCHANGED retryVars
    /\ UNCHANGED queryVars
    /\ UNCHANGED cliVars

\* faulty variant: the content is written to the storage path itself
WriteFileInPlace(f, tmp, content) == [file |-> content, temp |-> tmp]

\* the files after fs.writeFile(tempPath, ...) has left `content` behind
WriteFile(f, tmp, content) == [file |-> f, temp |-> content]

\* await fs.writeFile(tempPath, content) resolves
WriteFileSettles(p) ==
    /\ pc[p] = "writeFile"
    /\ LET after == WriteFile(file, temp, JsonFile(JSONstringify(mem[p])))
       IN  file' = after.file /\ temp' = after.temp
    /\ pc' = [pc EXCEPT ![p] = "rename"]
    /\ UNCHANGED <<dir, now, calls, op, mem, ret>>
    /\ UNCHANGED retryVars
    /\ UNCHANGED queryVars
    /\ UNCHANGED cliVars

\* fs.writeFile rejects, or the process stops in it: the temp file is left
\* as it was, or truncated, or partly written
WriteFileFails(p) ==
    /\ pc[p] = "writeFile"
    /\ \E left \in {temp, PartialFile} :
         LET after == WriteFile(file, temp, left)
         IN  file' = after.file /\ temp' = after.temp
    /\ Fail(p, "ENOSPC")
    /\ UNCHANGED <<dir, now, calls, op, mem>>
    /\ UNCHANGED retryVars
    /\ UNCHANGED queryVars
    /\ UNCHANGED cliVars

\* faulty variant: the rename does not replace a file that is already there
RenameSettlesKeepsDestination(p) ==
    /\ pc[p] = "rename"
    /\ temp.kind # "absent"
    /\ file' = IF file.kind = "absent" THEN temp ELSE file
    /\ temp' = NoFile
    /\ pc' = [pc EXCEPT ![p] = "returned"]
    /\ ret' = [ret EXCEPT ![p] = [@ EXCEPT !.status = "returned"]]
    /\ UNCHANGED <<dir, now, calls, op, mem>>
    /\ UNCHANGED retryVars
    /\ UNCHANGED queryVars
    /\ UNCHANGED cliVars

\* await fs.rename(tempPath, filePath) resolves: one atomic replacement
RenameSettles(p) ==
    /\ pc[p] = "rename"
    /\ temp.kind # "absent"
    /\ file' = temp
    /\ temp' = NoFile
    /\ pc' = [pc EXCEPT ![p] = "returned"]
    /\ ret' = [ret EXCEPT ![p] = [@ EXCEPT !.status = "returned"]]
    /\ UNCHANGED <<dir, now, calls, op, mem>>
    /\ UNCHANGED retryVars
    /\ UNCHANGED queryVars
    /\ UNCHANGED cliVars

\* fs.rename rejects, or the process stops before it
RenameFails(p) ==
    /\ pc[p] = "rename"
    /\ Fail(p, IF temp.kind = "absent" THEN "ENOENT" ELSE "EIO")
    /\ UNCHANGED <<file, temp, dir, now, calls, op, mem>>
    /\ UNCHANGED retryVars
    /\ UNCHANGED queryVars
    /\ UNCHANGED cliVars

\* the invocation ends; the next one starts with nothing but the files
Exit(p) ==
    /\ pc[p] \in {"returned", "threw"}
    /\ pc' = [pc EXCEPT ![p] = "idle"]
    /\ op' = [op EXCEPT ![p] = NoOp]
    /\ mem' = [mem EXCEPT ![p] = BlankDoc]
    /\ ret' = [ret EXCEPT ![p] = NoResult]
    /\ UNCHANGED <<file, temp, dir, now, calls>>
    /\ UNCHANGED retryVars
    /\ UNCHANGED queryVars
    /\ UNCHANGED cliVars

(***************************************************************************)
(* Storage: the query operations                                           *)
(***************************************************************************)
\* the characters of the strings compared with < and >, by UTF-16 code unit
CodeUnitOrder ==
    <<" ", "-", "0", "1", "2", "3", "4", "5", "6", "7", "8", "9",
      "A", "B", "C", "T", "a", "b", "c", "d", "h", "p", "q", "v", "w", "x", "y">>

CodeUnit(c) == CHOOSE i \in DOMAIN CodeUnitOrder : CodeUnitOrder[i] = c

RECURSIVE StringLess(_, _)
\* a < b on two strings
StringLess(a, b) ==
    IF b = <<>> THEN FALSE
    ELSE IF a = <<>> THEN TRUE
    ELSE IF Head(a) = Head(b) THEN StringLess(Tail(a), Tail(b))
    ELSE CodeUnit(Head(a)) < CodeUnit(Head(b))

UpperCase == <<"A", "B", "C", "T">>

LowerCase == <<"a", "b", "c", "t">>

\* String.prototype.toLowerCase
toLowerCase(s) ==
    [i \in DOMAIN s |->
        IF \E j \in DOMAIN UpperCase : UpperCase[j] = s[i]
            THEN LowerCase[CHOOSE j \in DOMAIN UpperCase : UpperCase[j] = s[i]]
            ELSE s[i]]

\* String.prototype.includes
StringIncludes(s, sub) ==
    \E i \in 0..(Len(s) - Len(sub)) : SubSeq(s, i + 1, i + Len(sub)) = sub

\* an optional value that was given, or the default
OrDefault(opt, default) == IF opt = <<>> THEN default ELSE opt[1]

\* faulty variant: the text search is case-sensitive
matchesFilterCaseSensitive(entry, filter) ==
    IF ~Falsy(Get(filter, "startDate"))
            /\ StringLess(Get(entry, "date"), Get(filter, "startDate"))
        THEN FALSE
    ELSE IF ~Falsy(Get(filter, "endDate"))
            /\ StringLess(Get(filter, "endDate"), Get(entry, "date"))
        THEN FALSE
    ELSE IF ~Falsy(Get(filter, "searchText"))
            /\ ~StringIncludes(Get(entry, "audioText"), Get(filter, "searchText"))
            /\ ~StringIncludes(Get(entry, "prompt"), Get(filter, "searchText"))
        THEN FALSE
    ELSE IF ~Falsy(Get(filter, "style")) /\ Get(entry, "style") # Get(filter, "style")
        THEN FALSE
    ELSE IF ~Falsy(Get(filter, "mood")) /\ Get(entry, "mood") # Get(filter, "mood")
        THEN FALSE
    ELSE TRUE

\* matchesFilter(entry, filter)
matchesFilter(entry, filter) ==
    IF ~Falsy(Get(filter, "startDate"))
            /\ StringLess(Get(entry, "date"), Get(filter, "startDate"))
        THEN FALSE
    ELSE IF ~Falsy(Get(filter, "endDate"))
            /\ StringLess(Get(filter, "endDate"), Get(entry, "date"))
        THEN FALSE
    ELSE IF ~Falsy(Get(filter, "searchText"))
            /\ ~StringIncludes(toLowerCase(Get(entry, "audioText")),
                               toLowerCase(Get(filter, "searchText")))
            /\ ~StringIncludes(toLowerCase(Get(entry, "prompt")),
                               toLowerCase(Get(filter, "searchText")))
        THEN FALSE
    ELSE IF ~Falsy(Get(filter, "style")) /\ Get(entry, "style") # Get(filter, "style")
        THEN FALSE
    ELSE IF ~Falsy(Get(filter, "mood")) /\ Get(entry, "mood") # Get(filter, "mood")
        THEN FALSE
    ELSE TRUE

\* faulty variant: an entry without the field is sorted by its date
SortValueFallsBackToDate(a, field) ==
    IF Falsy(Get(a, field)) THEN Get(a, "date") ELSE Get(a, field)

\* a[field] || a.createdAt
SortValue(a, field) ==
    IF Falsy(Get(a, field)) THEN Get(a, "createdAt") ELSE Get(a, field)

\* the comparator sortEntries hands to Array.prototype.sort
SortComparator(a, b, field, order) ==
    LET comparison == localeCompare(SortValue(a, field), SortValue(b, field))
    IN  IF order = "asc" THEN comparison ELSE -comparison

RECURSIVE InsertSorted(_, _, _, _)
InsertSorted(sorted, e, field, order) ==
    IF sorted = <<>> THEN <<e>>
    ELSE IF SortComparator(sorted[Len(sorted)], e, field, order) <= 0
        THEN Append(sorted, e)
    ELSE Append(InsertSorted(SubSeq(sorted, 1, Len(sorted) - 1), e, field, order),
                sorted[Len(sorted)])

RECURSIVE StableSort(_, _, _)
\* [...entries].sort(comparator): Array.prototype.sort is stable
StableSort(entries, field, order) ==
    IF entries = <<>> THEN <<>>
    ELSE InsertSorted(StableSort(SubSeq(entries, 1, Len(entries) - 1), field, order),
                      entries[Len(entries)], field, order)

\* faulty variant: the order asked for is not looked at
sortEntriesIgnoresOrder(entries, options) ==
    StableSort(entries, OrDefault(options.field, "date"), "desc")

\* faulty variant: an order left out is taken to be asc
sortEntriesDefaultAsc(entries, options) ==
    StableSort(entries, OrDefault(options.field, "date"), OrDefault(options.order, "asc"))

\* sortEntries(entries, options), with the defaults field = 'date', order = 'desc'
sortEntries(entries, options) ==
    StableSort(entries, OrDefault(options.field, "date"), OrDefault(options.order, "desc"))

\* entries.slice(0, n) for an integer n
Slice(entries, n) ==
    IF n >= 0
        THEN SubSeq(entries, 1, IF n < Len(entries) THEN n ELSE Len(entries))
        ELSE SubSeq(entries, 1, Len(entries) + n)

NoListOptions == [filter |-> <<>>, sort |-> <<>>, limit |-> <<>>]

\* entries.filter((entry) => matchesFilter(entry, filter))
FilterEntries(entries, filter) ==
    SelectSeq(entries, LAMBDA entry : matchesFilter(entry, filter))

\* faulty variant: the limit is applied to the stored entries, before the
\* filter and the sort
listDiariesLimitFirst(storage, options) ==
    LET o == OrDefault(options, NoListOptions)
        limited == IF o.limit # <<>> /\ o.limit[1] # 0
                       THEN Slice(storage.diaries, o.limit[1])
                       ELSE storage.diaries
        filtered == IF o.filter # <<>>
                        THEN FilterEntries(limited, o.filter[1])
                        ELSE limited
    IN  IF o.sort # <<>> THEN sortEntries(filtered, o.sort[1]) ELSE filtered

\* listDiaries(options) after loadDiaries has resolved with `storage`;
\* options, options.filter, options.sort and options.limit may each be absent
listDiaries(storage, options) ==
    LET o == OrDefault(options, NoListOptions)
        filtered == IF o.filter # <<>>
                        THEN FilterEntries(storage.diaries, o.filter[1])
                        ELSE storage.diaries
        sorted == IF o.sort # <<>> THEN sortEntries(filtered, o.sort[1]) ELSE filtered
    IN  IF o.limit # <<>> /\ o.limit[1] # 0 THEN Slice(sorted, o.limit[1]) ELSE sorted

\* getDiaryById(id): the first entry with that id, or null (no value)
getDiaryById(storage, id) ==
    IF FindIndex(storage.diaries, id) = 0 THEN <<>>
    ELSE <<storage.diaries[FindIndex(storage.diaries, id)]>>

\* searchDiaries(searchText, options): the filter { searchText, ...options?.filter }
searchDiaries(storage, searchText, options) ==
    LET o == OrDefault(options, NoListOptions)
        filter == Spread(Obj([searchText |-> searchText]),
                         OrDefault(o.filter, EmptyObject))
    IN  listDiaries(storage, <<[o EXCEPT !.filter = <<filter>>]>>)

\* getDiariesByDate(date)
getDiariesByDate(storage, date) ==
    listDiaries(storage,
                <<[filter |-> <<Obj([startDate |-> date, endDate |-> date])>>,
                   sort |-> <<[field |-> <<"createdAt">>, order |-> <<"asc">>]>>,
                   limit |-> <<>>]>>)

\* faulty variant: the date range is read off the entries in stored order
getStorageStatsUnsorted(storage) ==
    LET diaries == storage.diaries
        styles == {Get(diaries[i], "style") : i \in DOMAIN diaries} \ {Undefined, <<>>}
    IN  IF Len(diaries) = 0
            THEN [totalEntries |-> 0, dateRange |-> <<>>, styleCounts |-> EmptyObject]
            ELSE [totalEntries |-> Len(diaries),
                  dateRange |-> <<[earliest |-> Get(diaries[1], "date"),
                                   latest |-> Get(diaries[Len(diaries)], "date")]>>,
                  styleCounts |->
                      [s \in styles |->
                          Cardinality({i \in DOMAIN diaries : Get(diaries[i], "style") = s})]]

\* getStorageStats()
getStorageStats(storage) ==
    LET diaries == storage.diaries
        sortedByDate == SortByDate(diaries)
        styles == {Get(diaries[i], "style") : i \in DOMAIN diaries} \ {Undefined, <<>>}
    IN  IF Len(diaries) = 0
            THEN [totalEntries |-> 0, dateRange |-> <<>>, styleCounts |-> EmptyObject]
            ELSE [totalEntries |-> Len(diaries),
                  dateRange |-> <<[earliest |-> Get(sortedByDate[1], "date"),
                                   latest |-> Get(sortedByDate[Len(sortedByDate)], "date")]>>,
                  styleCounts |->
                      [s \in styles |->
                          Cardinality({i \in DOMAIN diaries : Get(diaries[i], "style") = s})]]

\* no command has been run; process.env holds no credential
NoEnv == [OPENAI_API_KEY |-> <<>>, GEMINI_API_KEY |-> <<>>]

NoCli ==
    [cmd |-> "none", at |-> "idle", status |-> -1, env |-> NoEnv,
     fx |-> <<>>, text |-> <<>>, flags |-> <<>>, printed |-> <<>>]

\* the query called and its arguments
NoQuery == [kind |-> "none", options |-> <<>>, arg |-> <<>>]

NoAnswer == [status |-> "none", error |-> "", value |-> <<>>]

\* what the query called answers once loadDiaries has resolved
QueryAnswer(q, storage) ==
    IF q.kind = "load" THEN storage
    ELSE IF q.kind = "list" THEN listDiaries(storage, q.options)
    ELSE IF q.kind = "getById" THEN getDiaryById(storage, q.arg)
    ELSE IF q.kind = "search" THEN searchDiaries(storage, q.arg, q.options)
    ELSE IF q.kind = "byDate" THEN getDiariesByDate(storage, q.arg)
    ELSE getStorageStats(storage)

StorageInit ==
    /\ cli = NoCli
    /\ query = NoQuery
    /\ answer = NoAnswer
    /\ file = NoFile
    /\ temp = NoFile
    /\ dir = FALSE
    /\ now = 0
    /\ calls = 0
    /\ pc = [p \in Procs |-> "idle"]
    /\ op = [p \in Procs |-> NoOp]
    /\ mem = [p \in Procs |-> BlankDoc]
    /\ ret = [p \in Procs |-> NoResult]

(***************************************************************************)
(* GeminiClient: configuration                                             *)
(***************************************************************************)
DefaultMaxRetries == 3
DefaultRetryDelay == 1000

\* An optional value is <<>> (absent) or <<v>>.
\* a ?? b
Coalesce(opt, default) == IF opt = <<>> THEN default ELSE opt[1]

\* constructor(config): the two fields the retry loop reads
GeminiClientConfig(given) ==
    [maxRetries |-> Coalesce(given.maxRetries, DefaultMaxRetries),
     retryDelay |-> Coalesce(given.retryDelay, DefaultRetryDelay)]

GivenConfigs ==
    [maxRetries : {<<>>} \cup {<<n>> : n \in -1..MaxRetriesBound},
     retryDelay : {<<>>, <<250>>}]

(***************************************************************************)
(* GeminiClient: errors and responses                                      *)
(***************************************************************************)
NoOutcome ==
    [t |-> "none", success |-> FALSE, imageData |-> <<>>,
     name |-> "", code |-> "", retryable |-> FALSE, message |-> <<>>]

GeminiImageResponse(success, imageData) ==
    [t |-> "response", success |-> success, imageData |-> imageData,
     name |-> "", code |-> "", retryable |-> FALSE, message |-> <<>>]

GeminiError(name, message, code, retryable) ==
    [t |-> "error", success |-> FALSE, imageData |-> <<>>,
     name |-> name, code |-> code, retryable |-> retryable, message |-> message]

GeminiAuthError(message) ==
    GeminiError("GeminiAuthError", message, "AUTH_ERROR", FALSE)

GeminiRateLimitError(message) ==
    GeminiError("GeminiRateLimitError", message, "RATE_LIMIT", TRUE)

GeminiNetworkError(message) ==
    GeminiError("GeminiNetworkError", message, "NETWORK_ERROR", TRUE)

GeminiRequestError(message) ==
    GeminiError("GeminiRequestError", message, "REQUEST_ERROR", FALSE)

\* message.includes(word)
Includes(message, word) == \E i \in DOMAIN message : message[i] = word

\* What the remote call inside callApi's try block can do: answer with a
\* response, throw an Error with a message, or throw something that is no Error.
RawResponses ==
    [t : {"response"}, success : BOOLEAN,
     imageData : {<<>>, <<"">>, <<"base64">>}, message : {<<>>}]

RawMessages ==
    {<<"HTTP", "401">>, <<"HTTP", "403">>, <<"HTTP", "429">>,
     <<"connect", "ECONNREFUSED">>, <<"getaddrinfo", "ENOTFOUND">>,
     <<"HTTP", "500">>, <<"HTTP", "429", "then", "401">>,
     <<"ECONNREFUSED", "429">>}

RawThrows ==
    [t : {"throwError"}, success : {FALSE}, imageData : {<<>>}, message : RawMessages]
    \cup [t : {"throwOther"}, success : {FALSE}, imageData : {<<>>}, message : {<<>>}]

RawOutcomes == RawResponses \cup RawThrows

\* faulty variant: the rate limit is looked for before the authentication failure
callApiRateLimitFirst(raw) ==
    IF raw.t = "response" THEN GeminiImageResponse(raw.success, raw.imageData)
    ELSE IF raw.t = "throwError" THEN
        IF Includes(raw.message, "429")
            THEN GeminiRateLimitError(<<"Rate", "limit", "exceeded">>)
        ELSE IF Includes(raw.message, "401") \/ Includes(raw.message, "403")
            THEN GeminiAuthError(<<"Invalid", "API", "key">>)
        ELSE IF Includes(raw.message, "ECONNREFUSED") \/ Includes(raw.message, "ENOTFOUND")
            THEN GeminiNetworkError(raw.message)
        ELSE GeminiRequestError(raw.message)
    ELSE GeminiRequestError(<<"Unknown", "error", "occurred">>)

\* callApi: the response, or the classified error of its catch block
callApi(raw) ==
    IF raw.t = "response" THEN GeminiImageResponse(raw.success, raw.imageData)
    ELSE IF raw.t = "throwError" THEN
        IF Includes(raw.message, "401") \/ Includes(raw.message, "403")
            THEN GeminiAuthError(<<"Invalid", "API", "key">>)
        ELSE IF Includes(raw.message, "429")
            THEN GeminiRateLimitError(<<"Rate", "limit", "exceeded">>)
        ELSE IF Includes(raw.message, "ECONNREFUSED") \/ Includes(raw.message, "ENOTFOUND")
            THEN GeminiNetworkError(raw.message)
        ELSE GeminiRequestError(raw.message)
    ELSE GeminiRequestError(<<"Unknown", "error", "occurred">>)

(***************************************************************************)
(* GeminiClient.generateImage                                              *)
(***************************************************************************)
RECURSIVE Pow2(_)
\* Math.pow(2, n), n >= 0
Pow2(n) == IF n <= 0 THEN 1 ELSE 2 * Pow2(n - 1)

\* faulty variant: a delay that grows linearly
calculateBackoffLinear(cfg, n) == cfg.retryDelay * (n + 1)

calculateBackoff(cfg, n) == cfg.retryDelay * Pow2(n)

\* a string is truthy when it is present and not empty
Truthy(opt) == opt # <<>> /\ opt[1] # ""

\* response.success && response.imageData
ResponseAccepted(response) == response.success /\ Truthy(response.imageData)

\* faulty variant: the unsuccessful response raised as a retryable error
UnsuccessfulResponseErrorRetryable ==
    GeminiRateLimitError(<<"API", "returned", "unsuccessful", "response">>)

\* the error thrown inside the try block for a response that is not accepted
UnsuccessfulResponseError ==
    GeminiRequestError(<<"API", "returned", "unsuccessful", "response">>)

\* the error the catch block of generateImage sees for one settled call
CaughtError(out) ==
    IF out.t = "error" THEN out ELSE UnsuccessfulResponseError

\* faulty variant: the last attempt is not recognised
GiveUpWhenNotRetryableOnly(cfg, error, n) == ~error.retryable

\* faulty variant: the retryable flag is not consulted
GiveUpAtLastAttemptOnly(cfg, error, n) == n = cfg.maxRetries

\* !error.retryable || attempt === this.config.maxRetries
GiveUp(cfg, error, n) == ~error.retryable \/ n = cfg.maxRetries

NoRaw == [t |-> "none", success |-> FALSE, imageData |-> <<>>, message |-> <<>>]

\* one remote call: what the call did (raw) and what callApi made of it (out)
CallEvent(n, raw, out) ==
    [ev |-> "call", attempt |-> n, delay |-> 0, raw |-> raw, out |-> out]

SleepEvent(n, d) ==
    [ev |-> "sleep", attempt |-> n, delay |-> d, raw |-> NoRaw, out |-> NoOutcome]

Pending == [status |-> "pending", value |-> NoOutcome]

Returned(v) == [status |-> "returned", value |-> v]

Thrown(e) == [status |-> "thrown", value |-> e]

\* the statement after the loop: throw lastError || new GeminiRequestError(...)
AfterLoop(last) ==
    Thrown(IF last # NoOutcome THEN last
           ELSE GeminiRequestError(<<"Unknown", "error">>))

\* generateImage is entered: attempt = 0 and the loop condition is tested
GenerateImageEnter ==
    /\ rpc = "idle"
    /\ attempt' = 0
    /\ IF 0 <= config.maxRetries
         THEN rpc' = "call" /\ result' = result
         ELSE rpc' = "thrown" /\ result' = AfterLoop(lastError)
    /\ UNCHANGED <<config, lastError, log>>
    /\ UNCHANGED storageVars
    /\ UNCHANGED queryVars
    /\ UNCHANGED cliVars

\* await this.callApi(prompt, attempt) settles; the rest of the loop body runs
\* up to the return, the throw or the start of the backoff sleep
CallApiSettles ==
    /\ rpc = "call"
    /\ \E raw \in RawOutcomes :
         LET out == callApi(raw)
             called == Append(log, CallEvent(attempt, raw, out))
         IN  IF out.t = "response" /\ ResponseAccepted(out)
               THEN /\ rpc' = "returned"
                    /\ result' = Returned(out)
                    /\ log' = called
                    /\ UNCHANGED lastError
               ELSE LET error == CaughtError(out)
                    IN  /\ lastError' = error
                        /\ IF GiveUp(config, error, attempt)
                             THEN /\ rpc' = "thrown"
                                  /\ result' = Thrown(error)
                                  /\ log' = called
                             ELSE /\ rpc' = "sleep"
                                  /\ result' = result
                                  /\ log' = Append(called,
                                        SleepEvent(attempt, calculateBackoff(config, attempt)))
    /\ UNCHANGED <<config, attempt>>
    /\ UNCHANGED storageVars
    /\ UNCHANGED queryVars
    /\ UNCHANGED cliVars

\* faulty variant: the loop starts over after the sleep, attempt = 0 with a
\* fresh history
SleepSettlesStartsOver ==
    /\ rpc = "sleep"
    /\ attempt' = 0
    /\ log' = <<>>
    /\ rpc' = "call"
    /\ result' = result
    /\ UNCHANGED <<config, lastError>>
    /\ UNCHANGED storageVars
    /\ UNCHANGED queryVars
    /\ UNCHANGED cliVars

\* await this.sleep(backoffDelay) settles; attempt++ and the loop condition
SleepSettles ==
    /\ rpc = "sleep"
    /\ attempt' = attempt + 1
    /\ IF attempt + 1 <= config.maxRetries
         THEN rpc' = "call" /\ result' = result
         ELSE rpc' = "thrown" /\ result' = AfterLoop(lastError)
    /\ UNCHANGED <<config, lastError, log>>
    /\ UNCHANGED storageVars
    /\ UNCHANGED queryVars
    /\ UNCHANGED cliVars

RetryInit ==
    /\ StorageInit
    /\ config \in {GeminiClientConfig(g) : g \in GivenConfigs}
    /\ rpc = "idle"
    /\ attempt = 0
    /\ lastError = NoOutcome
    /\ result = Pending
    /\ log = <<>>

RetryNext == GenerateImageEnter \/ CallApiSettles \/ SleepSettles

SpecRetry == RetryInit /\ [][RetryNext]_vars

\* the same with every remote call and every backoff sleep completing: a
\* pending await of callApi or of sleep is settled at some time
SpecRetryFair ==
    /\ RetryInit
    /\ [][RetryNext]_vars
    /\ WF_vars(CallApiSettles)
    /\ WF_vars(SleepSettles)

(***************************************************************************)
(* The storage used by one invocation at a time                            *)
(***************************************************************************)
Init ==
    /\ StorageInit
    /\ config = GeminiClientConfig([maxRetries |-> <<>>, retryDelay |-> <<>>])
    /\ rpc = "idle"
    /\ attempt = 0
    /\ lastError = NoOutcome
    /\ result = Pending
    /\ log = <<>>

Next ==
    \E p \in Sequential :
          \/ SaveDiaryCall(p)
          \/ UpdateDiaryCall(p)
          \/ DeleteDiaryCall(p)
          \/ RebuildIndexCall(p)
          \/ LoadDiariesCall(p)
          \/ ReadFileSettles(p)
          \/ MkdirSettles(p)
          \/ MkdirFails(p)
          \/ WriteFileSettles(p)
          \/ WriteFileFails(p)
          \/ RenameSettles(p)
          \/ RenameFails(p)
          \/ Exit(p)

Spec == Init /\ [][Next]_vars

(***************************************************************************)
(* The same invocations started on a storage path that may hold a file    *)
(* the program did not write: malformed JSON, or JSON without "diaries"   *)
(***************************************************************************)
UnreadableFiles == {PartialFile, NoDiariesFile}

FoundInit ==
    /\ cli = NoCli
    /\ query = NoQuery
    /\ answer = NoAnswer
    /\ file \in {NoFile} \cup UnreadableFiles
    /\ temp = NoFile
    /\ dir = (file # NoFile)
    /\ now = 0
    /\ calls = 0
    /\ pc = [p \in Procs |-> "idle"]
    /\ op = [p \in Procs |-> NoOp]
    /\ mem = [p \in Procs |-> BlankDoc]
    /\ ret = [p \in Procs |-> NoResult]
    /\ config = GeminiClientConfig([maxRetries |-> <<>>, retryDelay |-> <<>>])
    /\ rpc = "idle"
    /\ attempt = 0
    /\ lastError = NoOutcome
    /\ result = Pending
    /\ log = <<>>

SpecFound == FoundInit /\ [][Next]_vars

(***************************************************************************)
(* Two invocations saving on the same storage path with no coordination:  *)
(* the steps of their saveDiary calls interleave in any order             *)
(***************************************************************************)
RacingInputs == {ValidEntry1, ValidEntry2}

\* saveDiary(entry) called by one of the two invocations
RacingSaveDiaryCall(p) ==
    /\ pc[p] = "idle"
    /\ calls < MaxRacingCalls
    /\ \E entry \in RacingInputs :
         Call(p, [kind |-> "save", entry |-> entry, id |-> <<>>], validateEntry(entry))

RaceNext ==
    \E p \in Procs :
          \/ RacingSaveDiaryCall(p)
          \/ ReadFileSettles(p)
          \/ MkdirSettles(p)
          \/ WriteFileSettles(p)
          \/ RenameSettles(p)
          \/ RenameFails(p)
          \/ Exit(p)

SpecRace == Init /\ [][RaceNext]_vars

(***************************************************************************)
(* The query operations, each on a storage file as it may be found        *)
(***************************************************************************)
Date3 == <<"2", "0", "2", "4", "-", "0", "1", "-", "0", "3">>

QueryFields2 ==
    Obj([date |-> Date2, audioText |-> <<"b">>, imagePath |-> <<"p">>,
         prompt |-> <<"C">>, style |-> Undefined])

QueryFields4 ==
    Obj([date |-> Date3, audioText |-> <<"d">>, imagePath |-> <<"p">>,
         prompt |-> <<"q">>, style |-> <<"v">>, mood |-> <<"h">>])

\* stored entries as saveDiary and updateDiary write them: two of the same
\* date, two created in the same millisecond, two updated since
QueryEntry1 ==
    StringifyEntry(NewEntry(
        Obj([date |-> Date1, audioText |-> <<"A", "b">>, imagePath |-> <<"p">>,
             prompt |-> <<"q">>, style |-> <<"w">>, mood |-> <<"h">>]),
        0, <<"x">>))

QueryEntry2 ==
    StringifyEntry(UpdatedEntry(NewEntry(QueryFields2, 1, <<"x">>), QueryFields2, 3))

QueryEntry3 ==
    StringifyEntry(NewEntry(
        Obj([date |-> Date1, audioText |-> <<"c">>, imagePath |-> <<"p">>,
             prompt |-> <<"a", "b">>, style |-> <<"w">>]),
        2, <<"y">>))

QueryEntry4 ==
    StringifyEntry(UpdatedEntry(NewEntry(QueryFields4, 1, <<"y">>), QueryFields4, 2))

QueryEntries == {QueryEntry1, QueryEntry2, QueryEntry3, QueryEntry4}

\* the stored sequences: up to MaxStored entries, no entry twice
StoredSequences ==
    UNION {{s \in [1..n -> QueryEntries] : \A i, j \in 1..n : i # j => s[i] # s[j]} :
             n \in 0..MaxStored}

QueryFiles ==
    {NoFile} \cup UnreadableFiles
        \cup {JsonFile([version |-> STORAGE_VERSION, diaries |-> s,
                        lastModified |-> ToISOString(3)]) : s \in StoredSequences}

\* filters: each of the five fields given (a non-empty string) or left out
FilterInputs ==
    {Spread(Spread(Spread(Spread(a, b), c), d), e) :
        a \in {EmptyObject, Obj([startDate |-> Date1])},
        b \in {EmptyObject, Obj([endDate |-> Date1])},
        c \in {EmptyObject, Obj([searchText |-> <<"a", "B">>])},
        d \in {EmptyObject, Obj([style |-> <<"w">>])},
        e \in {EmptyObject, Obj([mood |-> <<"h">>])}}

SortInputs ==
    [field : {<<>>, <<"date">>, <<"createdAt">>, <<"updatedAt">>},
     order : {<<>>, <<"asc">>, <<"desc">>}]

LimitInputs == {<<>>} \cup {<<n>> : n \in 0..MaxLimit}

ListInputs ==
    {<<>>} \cup
    {<<o>> : o \in [filter : {<<>>} \cup {<<f>> : f \in FilterInputs},
                    sort : {<<>>} \cup {<<x>> : x \in SortInputs},
                    limit : LimitInputs]}

SearchTexts == {<<"a", "B">>, <<"c">>}

SearchInputs ==
    {<<>>} \cup
    {<<o>> : o \in [filter : {<<>>, <<Obj([searchText |-> <<"c">>])>>,
                              <<Obj([searchText |-> Undefined])>>,
                              <<Obj([style |-> <<"w">>])>>},
                    sort : {<<>>, <<[field |-> <<>>, order |-> <<>>]>>},
                    limit : {<<>>, <<1>>}]}

QueryIds ==
    {Get(e, "id") : e \in QueryEntries} \cup {MissingId}

QueryCall(q) ==
    /\ query = NoQuery
    /\ query' = q
    /\ answer' = NoAnswer
    /\ UNCHANGED storageVars
    /\ UNCHANGED retryVars
    /\ UNCHANGED cliVars

\* loadDiaries(storagePath) called on its own
LoadDiariesQueryCall ==
    /\ query.kind = "none"
    /\ QueryCall([kind |-> "load", options |-> <<>>, arg |-> <<>>])

ListDiariesCall ==
    /\ query.kind = "none"
    /\ \E options \in ListInputs :
         QueryCall([kind |-> "list", options |-> options, arg |-> <<>>])

GetDiaryByIdCall ==
    /\ query.kind = "none"
    /\ \E id \in QueryIds :
         QueryCall([kind |-> "getById", options |-> <<>>, arg |-> id])

SearchDiariesCall ==
    /\ query.kind = "none"
    /\ \E searchText \in SearchTexts, options \in SearchInputs :
         QueryCall([kind |-> "search", options |-> options, arg |-> searchText])

GetDiariesByDateCall ==
    /\ query.kind = "none"
    /\ \E date \in {Date1, Date2, Date3} :
         QueryCall([kind |-> "byDate", options |-> <<>>, arg |-> date])

GetStorageStatsCall ==
    /\ query.kind = "none"
    /\ QueryCall([kind |-> "stats", options |-> <<>>, arg |-> <<>>])

\* await loadDiaries(storagePath) settles in a query, and the query answers
QueryReadFileSettles ==
    /\ query.kind # "none"
    /\ answer.status = "none"
    /\ LET loaded == loadDiaries(file, now)
       IN  answer' = IF loaded.ok
                         THEN [status |-> "returned", error |-> "",
                               value |-> QueryAnswer(query, loaded.storage)]
                         ELSE [status |-> "threw", error |-> loaded.error,
                               value |-> <<>>]
    /\ UNCHANGED query
    /\ UNCHANGED storageVars
    /\ UNCHANGED retryVars
    /\ UNCHANGED cliVars

\* the answer is taken; the next query may be called
QueryExit ==
    /\ answer.status # "none"
    /\ query' = NoQuery
    /\ answer' = NoAnswer
    /\ UNCHANGED storageVars
    /\ UNCHANGED retryVars
    /\ UNCHANGED cliVars

QueryInit ==
    /\ cli = NoCli
    /\ query = NoQuery
    /\ answer = NoAnswer
    /\ file \in QueryFiles
    /\ temp = NoFile
    /\ dir = (file # NoFile)
    /\ now = 0
    /\ calls = 0
    /\ pc = [p \in Procs |-> "idle"]
    /\ op = [p \in Procs |-> NoOp]
    /\ mem = [p \in Procs |-> BlankDoc]
    /\ ret = [p \in Procs |-> NoResult]
    /\ config = GeminiClientConfig([maxRetries |-> <<>>, retryDelay |-> <<>>])
    /\ rpc = "idle"
    /\ attempt = 0
    /\ lastError = NoOutcome
    /\ result = Pending
    /\ log = <<>>

QueryNext ==
    \/ LoadDiariesQueryCall
    \/ ListDiariesCall
    \/ GetDiaryByIdCall
    \/ SearchDiariesCall
    \/ GetDiariesByDateCall
    \/ GetStorageStatsCall
    \/ QueryReadFileSettles
    \/ QueryExit

SpecQuery == QueryInit /\ [][QueryNext]_vars

(***************************************************************************)
(* The command line: the record and generate commands                     *)
(***************************************************************************)
\* process.env: each credential absent, empty or set
Credentials == {<<>>, <<"">>, <<"k">>}

Environments == [OPENAI_API_KEY : Credentials, GEMINI_API_KEY : Credentials]

\* what the speech-to-text call answers
Transcripts == {<<>>, <<"a">>}

\* what the user types at the editText prompt
Answers == {<<>>, <<" ">>, <<" ", "b">>}

\* process.exit(code), or the process ending by itself with status 0
processExit(c, code) == [c EXCEPT !.at = "exited", !.status = code]

\* the action of `record` up to the credential test
RecordCommand ==
    /\ cli.at = "idle"
    /\ cli' = IF ~Truthy(cli.env.OPENAI_API_KEY)
                  THEN processExit([cli EXCEPT !.cmd = "record"], 1)
                  ELSE [cli EXCEPT !.cmd = "record", !.at = "mkdir"]
    /\ UNCHANGED storageVars
    /\ UNCHANGED retryVars
    /\ UNCHANGED queryVars

\* recordVoice: await fs.mkdir(outputDir, { recursive: true }) settles; when
\* the storage path is under ./data its directory now exists
RecordVoiceMkdirSettles ==
    /\ cli.at = "mkdir"
    /\ \/ /\ cli' = [cli EXCEPT !.at = "recordAudio", !.fx = Append(@, "mkdir")]
          /\ dir' \in {dir, TRUE}
       \/ /\ cli' = processExit([cli EXCEPT !.fx = Append(@, "mkdir")], 1)
          /\ dir' = dir
    /\ UNCHANGED <<file, temp, now, calls, pc, op, mem, ret>>
    /\ UNCHANGED retryVars
    /\ UNCHANGED queryVars

\* recordVoice: await recordAudio(audioPath, duration) settles
RecordAudioSettles ==
    /\ cli.at = "recordAudio"
    /\ \E ok \in BOOLEAN :
         cli' = IF ok THEN [cli EXCEPT !.at = "transcribe", !.fx = Append(@, "recordAudio")]
                ELSE processExit([cli EXCEPT !.fx = Append(@, "recordAudio")], 1)
    /\ UNCHANGED storageVars
    /\ UNCHANGED retryVars
    /\ UNCHANGED queryVars

\* recordVoice: await transcribeWithWhisper(audioPath, openaiApiKey) settles
TranscribeSettles ==
    /\ cli.at = "transcribe"
    /\ \/ \E text \in Transcripts :
            cli' = [cli EXCEPT !.at = "editText", !.text = text,
                               !.fx = Append(@, "transcribe")]
       \/ cli' = processExit([cli EXCEPT !.fx = Append(@, "transcribe")], 1)
    /\ UNCHANGED storageVars
    /\ UNCHANGED retryVars
    /\ UNCHANGED queryVars

\* await editText(result.text) settles with answer.trim() || originalText; the
\* text is printed and the action ends
EditTextSettles ==
    /\ cli.at = "editText"
    /\ \E typed \in Answers :
         cli' = processExit(
                    [cli EXCEPT !.text = IF Trim(typed) # <<>> THEN Trim(typed) ELSE @,
                                !.fx = Append(@, "editText")], 0)
    /\ UNCHANGED storageVars
    /\ UNCHANGED retryVars
    /\ UNCHANGED queryVars

\* faulty variant: only an absent credential stops the command
GenerateCommandAcceptsEmptyKey ==
    /\ cli.at = "idle"
    /\ cli' = IF cli.env.GEMINI_API_KEY = <<>>
                  THEN processExit([cli EXCEPT !.cmd = "generate"], 1)
                  ELSE [cli EXCEPT !.cmd = "generate", !.at = "generateImage"]
    /\ UNCHANGED storageVars
    /\ UNCHANGED retryVars
    /\ UNCHANGED queryVars

\* the action of `generate <text>` up to the credential test
GenerateCommand ==
    /\ cli.at = "idle"
    /\ cli' = IF ~Truthy(cli.env.GEMINI_API_KEY)
                  THEN processExit([cli EXCEPT !.cmd = "generate"], 1)
                  ELSE [cli EXCEPT !.cmd = "generate", !.at = "generateImage"]
    /\ UNCHANGED storageVars
    /\ UNCHANGED retryVars
    /\ UNCHANGED queryVars

\* generateImage(options, config) builds the client and awaits
\* client.generateImage(options)
GenerateImageCalled ==
    /\ cli.at = "generateImage"
    /\ GenerateImageEnter

\* generateImage settles: the result is printed, or the error is printed and
\* process.exit(1) is called
GenerateCommandEnds ==
    /\ cli.at = "generateImage"
    /\ rpc \in {"returned", "thrown"}
    /\ cli' = processExit(cli, IF rpc = "returned" THEN 0 ELSE 1)
    /\ UNCHANGED storageVars
    /\ UNCHANGED retryVars
    /\ UNCHANGED queryVars

CliInit ==
    /\ cli \in {[NoCli EXCEPT !.env = e] : e \in Environments}
    /\ query = NoQuery
    /\ answer = NoAnswer
    /\ file = NoFile
    /\ temp = NoFile
    /\ dir = FALSE
    /\ now = 0
    /\ calls = 0
    /\ pc = [p \in Procs |-> "idle"]
    /\ op = [p \in Procs |-> NoOp]
    /\ mem = [p \in Procs |-> BlankDoc]
    /\ ret = [p \in Procs |-> NoResult]
    /\ config = GeminiClientConfig([maxRetries |-> <<>>, retryDelay |-> <<>>])
    /\ rpc = "idle"
    /\ attempt = 0
    /\ lastError = NoOutcome
    /\ result = Pending
    /\ log = <<>>

CliNext ==
    \/ RecordCommand
    \/ RecordVoiceMkdirSettles
    \/ RecordAudioSettles
    \/ TranscribeSettles
    \/ EditTextSettles
    \/ GenerateCommand
    \/ GenerateImageCalled
    \/ CallApiSettles
    \/ SleepSettles
    \/ GenerateCommandEnds

SpecCli == CliInit /\ [][CliNext]_vars

(***************************************************************************)
(* Prompts: validatePromptOptions, PromptBuilder, PromptExperiment         *)
(***************************************************************************)
\* JavaScript numbers: NaN, or a finite number given in tenths
NaN == <<"NaN">>

Number(tenths) == <<"number", tenths>>

Integer(n) == Number(10 * n)

\* a < b on numbers: false as soon as one side is NaN
NumberLess(a, b) == a # NaN /\ b # NaN /\ a[2] < b[2]

\* a <= b on numbers
NumberAtMost(a, b) == a # NaN /\ b # NaN /\ a[2] <= b[2]

\* a ?? b, for values that are never null
Nullish(v, default) == IF v = Undefined THEN default ELSE v

\* validatePromptOptions(options)
validatePromptOptions(options) ==
    IF Falsy(Get(options, "userInput")) \/ Len(Trim(Get(options, "userInput"))) = 0
        THEN FALSE
    ELSE IF Get(options, "age") # Undefined
            /\ (NumberLess(Get(options, "age"), Integer(1))
                \/ NumberLess(Integer(18), Get(options, "age")))
        THEN FALSE
    ELSE TRUE

ArtStyles == {<<"watercolor">>, <<"crayon">>, <<"picture-book">>, <<"anime">>, <<"pastel">>}

Moods == {<<"happy">>, <<"exciting">>, <<"calm">>, <<"nostalgic">>, <<"warm">>}

\* STYLE_DESCRIPTIONS[style]: the description, or undefined printed by replace
STYLE_DESCRIPTIONS(style) ==
    IF style = <<"watercolor">> THEN "STYLE_DESCRIPTIONS.watercolor"
    ELSE IF style = <<"crayon">> THEN "STYLE_DESCRIPTIONS.crayon"
    ELSE IF style = <<"picture-book">> THEN "STYLE_DESCRIPTIONS.picture-book"
    ELSE IF style = <<"anime">> THEN "STYLE_DESCRIPTIONS.anime"
    ELSE IF style = <<"pastel">> THEN "STYLE_DESCRIPTIONS.pastel"
    ELSE "undefined"

MOOD_DESCRIPTIONS(mood) ==
    IF mood = <<"happy">> THEN "MOOD_DESCRIPTIONS.happy"
    ELSE IF mood = <<"exciting">> THEN "MOOD_DESCRIPTIONS.exciting"
    ELSE IF mood = <<"calm">> THEN "MOOD_DESCRIPTIONS.calm"
    ELSE IF mood = <<"nostalgic">> THEN "MOOD_DESCRIPTIONS.nostalgic"
    ELSE IF mood = <<"warm">> THEN "MOOD_DESCRIPTIONS.warm"
    ELSE "undefined"

getAgeExpression(age) ==
    IF NumberAtMost(age, Integer(3)) THEN "age<=3"
    ELSE IF NumberAtMost(age, Integer(6)) THEN "age<=6"
    ELSE IF NumberAtMost(age, Integer(9)) THEN "age<=9"
    ELSE "age>9"

\* new PromptBuilder(options).getOptions()
PromptBuilder(options) ==
    [userInput |-> Get(options, "userInput"),
     style |-> Nullish(Get(options, "style"), <<"watercolor">>),
     mood |-> Nullish(Get(options, "mood"), <<"happy">>),
     age |-> Nullish(Get(options, "age"), Integer(5)),
     detailLevel |-> Nullish(Get(options, "detailLevel"), <<"normal">>),
     aspectRatio |-> Nullish(Get(options, "aspectRatio"), <<"4:3">>)]

buildAgeInstructions(o) ==
    <<getAgeExpression(o.age), ",",
      IF o.detailLevel = <<"simple">> THEN "detail:simple"
      ELSE IF o.detailLevel = <<"detailed">> THEN "detail:detailed"
      ELSE "detail:balanced",
      ".">>

buildAspectRatioInstruction(o) ==
    IF o.aspectRatio = <<"1:1">> THEN "ratio:1:1"
    ELSE IF o.aspectRatio = <<"4:3">> THEN "ratio:4:3"
    ELSE IF o.aspectRatio = <<"16:9">> THEN "ratio:16:9"
    ELSE ""

\* PROMPT_TEMPLATES.standard.template, cut at its placeholders
StandardTemplate ==
    <<"illustration:", "{{userInput}}", ".", "{{styleDescription}}", "with",
      "{{moodDescription}}", "atmosphere.">>

RECURSIVE ReplaceAll(_, _, _)
\* prompt.replace(/placeholder/g, replacement)
ReplaceAll(prompt, placeholder, replacement) ==
    IF prompt = <<>> THEN <<>>
    ELSE (IF Head(prompt) = placeholder THEN replacement ELSE <<Head(prompt)>>)
            \o ReplaceAll(Tail(prompt), placeholder, replacement)

\* PromptBuilder.build() with the standard template; o is this.options
Build(o) ==
    LET withInput == ReplaceAll(StandardTemplate, "{{userInput}}", o.userInput)
        withStyle == ReplaceAll(withInput, "{{styleDescription}}",
                                <<STYLE_DESCRIPTIONS(o.style)>>)
        withMood == ReplaceAll(withStyle, "{{moodDescription}}",
                               <<MOOD_DESCRIPTIONS(o.mood)>>)
    IN  withMood \o <<" ">> \o buildAgeInstructions(o) \o <<",">>
            \o <<buildAspectRatioInstruction(o)>>

RECURSIVE ToString10(_)
\* String(n) for an integer n >= 0
ToString10(n) ==
    IF n < 10 THEN <<Base36Chars[n + 1]>>
    ELSE ToString10(n \div 10) \o <<Base36Chars[(n % 10) + 1]>>

\* one element of PromptExperimentResult.variations
PromptVariation(parameters, version) ==
    [prompt |-> Build(PromptBuilder(parameters)),
     parameters |-> parameters,
     version |-> version]

\* faulty variant: the base options are spread over the override
generateVariationsBaseWins(experiment, t) ==
    LET base == experiment.basePrompt
        maxVariations == OrDefault(experiment.maxVariations, Len(experiment.variations))
        least == IF Len(experiment.variations) < maxVariations
                     THEN Len(experiment.variations) ELSE maxVariations
        n == IF least < 0 THEN 0 ELSE least
    IN  [experimentId |-> <<"e", "x", "p", "-">> \o ToString10(t),
         timestamp |-> ToISOString(t),
         basePrompt |-> Build(PromptBuilder(base)),
         variations |->
            <<PromptVariation(base, <<"base">>)>> \o
            [i \in 1..n |->
                PromptVariation(Spread(experiment.variations[i], base),
                                <<"variation-">> \o ToString10(i))]]

\* new PromptExperiment(config).generateVariations(), the clock reading t
generateVariations(experiment, t) ==
    LET base == experiment.basePrompt
        maxVariations == OrDefault(experiment.maxVariations, Len(experiment.variations))
        least == IF Len(experiment.variations) < maxVariations
                     THEN Len(experiment.variations) ELSE maxVariations
        n == IF least < 0 THEN 0 ELSE least
    IN  [experimentId |-> <<"e", "x", "p", "-">> \o ToString10(t),
         timestamp |-> ToISOString(t),
         basePrompt |-> Build(PromptBuilder(base)),
         variations |->
            <<PromptVariation(base, <<"base">>)>> \o
            [i \in 1..n |->
                PromptVariation(Spread(base, experiment.variations[i]),
                                <<"variation-">> \o ToString10(i))]]

\* inputs
UserInputs ==
    {EmptyObject, Obj([userInput |-> <<>>]), Obj([userInput |-> <<" ", " ">>]),
     Obj([userInput |-> <<"x">>]), Obj([userInput |-> <<" ", "x", " ">>])}

AgeInputs ==
    {EmptyObject, Obj([age |-> Undefined]), Obj([age |-> NaN])}
        \cup {Obj([age |-> Integer(n)]) : n \in {0, 1, 5, 18, 19}}
        \cup {Obj([age |-> Number(5)]), Obj([age |-> Number(55)]),
              Obj([age |-> Number(185)])}

PromptOptionInputs == {Spread(u, a) : u \in UserInputs, a \in AgeInputs}

BasePrompts ==
    {Obj([userInput |-> <<"x">>]),
     Obj([userInput |-> <<"x">>, style |-> <<"anime">>, mood |-> <<"calm">>,
          age |-> Integer(8)]),
     Obj([userInput |-> <<"{{moodDescription}}">>, style |-> <<"crayon">>,
          age |-> NaN])}

Overrides ==
    <<Obj([style |-> <<"watercolor">>]), Obj([style |-> <<"crayon">>]),
      Obj([style |-> Undefined, mood |-> <<"warm">>]),
      Obj([userInput |-> <<"y">>, age |-> Integer(2)])>>

ExperimentConfigs ==
    [basePrompt : BasePrompts,
     variations : {SubSeq(Overrides, 1, n) : n \in 0..Len(Overrides)}
                      \cup {SubSeq(Overrides, 2, 4)},
     maxVariations : {<<>>} \cup {<<n>> : n \in -1..MaxVariationsBound}]

ValidatePromptOptionsCall ==
    /\ query.kind = "none"
    /\ \E options \in PromptOptionInputs :
         QueryCall([kind |-> "validatePromptOptions", options |-> <<options>>,
                    arg |-> <<>>])

GenerateVariationsCall ==
    /\ query.kind = "none"
    /\ \E c \in ExperimentConfigs :
         QueryCall([kind |-> "generateVariations", options |-> <<c>>, arg |-> <<>>])

\* the prompts function called returns
PromptsCallReturns ==
    /\ query.kind \in {"validatePromptOptions", "generateVariations"}
    /\ answer.status = "none"
    /\ answer' = [status |-> "returned", error |-> "",
                  value |-> IF query.kind = "validatePromptOptions"
                                THEN validatePromptOptions(query.options[1])
                                ELSE generateVariations(query.options[1], now)]
    /\ UNCHANGED query
    /\ UNCHANGED storageVars
    /\ UNCHANGED retryVars
    /\ UNCHANGED cliVars

PromptsNext ==
    \/ ValidatePromptOptionsCall
    \/ GenerateVariationsCall
    \/ PromptsCallReturns
    \/ QueryExit

SpecPrompts == Init /\ [][PromptsNext]_vars

(***************************************************************************)
(* The command line: the list command                                      *)
(***************************************************************************)
\* a flag of the command line is <<>> (not given) or <<text>>; it is truthy
\* when given with a text that is not empty
FlagTruthy(flag) == flag # <<>> /\ flag[1] # <<>>

\* options.x: undefined for a flag that is not given
FlagValue(flag) == IF flag = <<>> THEN Undefined ELSE flag[1]

RECURSIVE DigitsValue(_, _)
\* the number read from the digits at the head of s, after acc
DigitsValue(s, acc) ==
    IF s = <<>> \/ Head(s) \notin Digits THEN acc
    ELSE DigitsValue(Tail(s),
                     10 * acc + (CHOOSE n \in 0..9 : Base36Chars[n + 1] = Head(s)))

\* parseInt(s, 10) for a text without sign: NaN when it does not start with a
\* digit once the leading blanks are skipped
parseInt(s) ==
    IF TrimStart(s) = <<>> \/ Head(TrimStart(s)) \notin Digits THEN NaN
    ELSE DigitsValue(TrimStart(s), 0)

\* the options the list command hands to searchDiaries and to listDiaries
ListCommandOptions(flags) ==
    [filter |-> <<Obj([startDate |-> FlagValue(flags.date),
                       style |-> FlagValue(flags.style),
                       mood |-> FlagValue(flags.mood)])>>,
     sort |-> IF FlagTruthy(flags.sort) \/ FlagTruthy(flags.order)
                  THEN <<[field |-> IF flags.sort = <<>> THEN <<>>
                                    ELSE <<flags.sort[1][1]>>,
                          order |-> IF flags.order = <<>> THEN <<>>
                                    ELSE <<flags.order[1][1]>>]>>
                  ELSE <<>>,
     limit |-> IF FlagTruthy(flags.limit) THEN <<parseInt(flags.limit[1])>> ELSE <<>>]

\* the storage query the list command awaits: search mode, date mode, or the
\* plain listing
ListCommandQuery(flags) ==
    IF FlagTruthy(flags.search)
        THEN [kind |-> "search", options |-> <<ListCommandOptions(flags)>>,
              arg |-> flags.search[1]]
    ELSE IF FlagTruthy(flags.date)
        THEN [kind |-> "byDate", options |-> <<>>, arg |-> flags.date[1]]
    ELSE [kind |-> "list", options |-> <<ListCommandOptions(flags)>>, arg |-> <<>>]

\* the flags given on the command line; --order has the default desc
ListFlags ==
    [search : {<<>>, <<<<"q">>>>},
     date : {<<>>, <<Date1>>, <<Date2>>},
     style : {<<>>, <<<<"w">>>>},
     mood : {<<>>, <<<<"h">>>>},
     sort : {<<>>, <<<<"createdAt">>>>},
     order : {<<<<"desc">>>>, <<<<"asc">>>>},
     limit : {<<>>, <<<<"0">>>>, <<<<"1">>>>}]

\* the action of `list` up to its await of the storage query
ListCommand ==
    /\ cli.at = "idle"
    /\ query = NoQuery
    /\ \E flags \in ListFlags :
         /\ cli' = [cli EXCEPT !.cmd = "list", !.at = "entries", !.flags = <<flags>>]
         /\ query' = ListCommandQuery(flags)
    /\ answer' = NoAnswer
    /\ UNCHANGED storageVars
    /\ UNCHANGED retryVars

\* the entries are there: they are printed and, unless there is none,
\* getStorageStats is awaited; an error is printed and process.exit(1) called
ListCommandPrintsEntries ==
    /\ cli.at = "entries"
    /\ answer.status # "none"
    /\ IF answer.status = "threw"
         THEN /\ cli' = processExit(cli, 1)
              /\ query' = NoQuery
       ELSE IF Len(answer.value) = 0
         THEN /\ cli' = processExit(
                           [cli EXCEPT !.printed =
                               <<[entries |-> answer.value, stats |-> <<>>]>>], 0)
              /\ query' = NoQuery
       ELSE /\ cli' = [cli EXCEPT !.at = "stats",
                                  !.printed = <<[entries |-> answer.value,
                                                 stats |-> <<>>]>>]
            /\ query' = [kind |-> "stats", options |-> <<>>, arg |-> <<>>]
    /\ answer' = NoAnswer
    /\ UNCHANGED storageVars
    /\ UNCHANGED retryVars

\* the statistics are there and are printed; the action ends
ListCommandPrintsStats ==
    /\ cli.at = "stats"
    /\ answer.status # "none"
    /\ cli' = IF answer.status = "threw" THEN processExit(cli, 1)
              ELSE processExit(
                       [cli EXCEPT !.printed =
                           <<[entries |-> @[1].entries, stats |-> <<answer.value>>]>>], 0)
    /\ query' = NoQuery
    /\ answer' = NoAnswer
    /\ UNCHANGED storageVars
    /\ UNCHANGED retryVars

ListNext ==
    \/ ListCommand
    \/ QueryReadFileSettles
    \/ ListCommandPrintsEntries
    \/ ListCommandPrintsStats

SpecList == QueryInit /\ [][ListNext]_vars

(***************************************************************************)
(* Claims about GeminiClient.generateImage (checked under SpecRetry)       *)
(***************************************************************************)
CallIndices == {i \in DOMAIN log : log[i].ev = "call"}

SleepIndices == {i \in DOMAIN log : log[i].ev = "sleep"}

NotRetryableFailure(e) ==
    /\ e.ev = "call"
    /\ e.out.t = "error"
    /\ e.out.name \in {"GeminiAuthError", "GeminiRequestError"}

RetryableFailure(e) ==
    /\ e.ev = "call"
    /\ e.out.t = "error"
    /\ e.out.name \in {"GeminiRateLimitError", "GeminiNetworkError"}

\* C1: an attempt that fails with an AuthError or a RequestError is the last
\* event of the run: no call and no backoff sleep follows it, and that very
\* error is thrown to the caller; when it is the first attempt, exactly one
\* remote call has been recorded.
C1_NoRetryOnNonRetryable ==
    \A i \in DOMAIN log :
        NotRetryableFailure(log[i]) =>
            /\ i = Len(log)
            /\ rpc = "thrown"
            /\ result = Thrown(log[i].out)
            /\ (log[i].attempt = 0 => Cardinality(CallIndices) = 1 /\ Len(log) = 1)

C1_Witness ==
    /\ Len(log) = 1
    /\ NotRetryableFailure(log[1])
    /\ log[1].out.name = "GeminiAuthError"
    /\ config.maxRetries >= 1
    /\ rpc = "thrown"

\* C2: when attempt k+1 succeeds after k retryable failures (0 <= k <=
\* maxRetries), the run is call, sleep, call, sleep, ..., call: k+1 calls and
\* k sleeps, the i-th sleep (i = 0..k-1) lasting retryDelay * 2^i between call
\* i+1 and call i+2; the successful response is returned and nothing follows.
C2_RetryThenSuccess ==
    \A j \in DOMAIN log :
        (log[j].ev = "call" /\ log[j].out.t = "response"
            /\ log[j].out.success /\ Truthy(log[j].out.imageData)) =>
            LET k == log[j].attempt
            IN  /\ 0 <= k /\ k <= config.maxRetries
                /\ j = 2 * k + 1
                /\ j = Len(log)
                /\ Cardinality(CallIndices) = k + 1
                /\ Cardinality(SleepIndices) = k
                /\ \A i \in 0..(k - 1) :
                     /\ RetryableFailure(log[2 * i + 1])
                     /\ log[2 * i + 1].attempt = i
                     /\ log[2 * i + 2].ev = "sleep"
                     /\ log[2 * i + 2].delay = config.retryDelay * (2 ^ i)
                /\ rpc = "returned"
                /\ result = Returned(log[j].out)

C2_Witness ==
    /\ rpc = "returned"
    /\ Len(log) = 5
    /\ log[1].out.name = "GeminiRateLimitError"
    /\ log[3].out.name = "GeminiRateLimitError"
    /\ log[2].delay = config.retryDelay
    /\ log[4].delay = config.retryDelay * 2

\* C3: never more than maxRetries + 1 remote calls; when attempt number
\* maxRetries + 1 fails with a retryable error, that error is thrown unchanged
\* and no backoff sleep follows the attempt.
C3_BoundedAttempts ==
    /\ Cardinality(CallIndices) <= config.maxRetries + 1
    /\ \A i \in DOMAIN log :
         (RetryableFailure(log[i]) /\ log[i].attempt = config.maxRetries) =>
            /\ i = Len(log)
            /\ Cardinality(CallIndices) = config.maxRetries + 1
            /\ \A c \in CallIndices : RetryableFailure(log[c])
            /\ rpc = "thrown"
            /\ result = Thrown(log[i].out)

C3_Witness ==
    /\ config.maxRetries = 3
    /\ Cardinality(CallIndices) = 4
    /\ RetryableFailure(log[Len(log)])
    /\ rpc = "thrown"

\* C4: a call that returns normally with success = false or without image
\* data ends the run: a GeminiRequestError (REQUEST_ERROR) is thrown after
\* that call and no call and no sleep follows it, whatever maxRetries is.
C4_UnsuccessfulResponseIsRequestError ==
    \A i \in DOMAIN log :
        (log[i].ev = "call" /\ log[i].out.t = "response"
            /\ (~log[i].out.success \/ log[i].out.imageData \in {<<>>, <<"">>})) =>
            /\ i = Len(log)
            /\ rpc = "thrown"
            /\ result.status = "thrown"
            /\ result.value.name = "GeminiRequestError"
            /\ result.value.code = "REQUEST_ERROR"
            /\ ~result.value.retryable

C4_Witness ==
    /\ config.maxRetries >= 2
    /\ Len(log) = 3
    /\ log[3].ev = "call"
    /\ log[3].out.t = "response"
    /\ log[3].out.success
    /\ log[3].out.imageData = <<>>
    /\ rpc = "thrown"

(***************************************************************************)
(* Claims about the storage (checked under Spec)                           *)
(***************************************************************************)
InWriteStorage(p) == pc[p] \in {"mkdir", "writeFile", "rename"}

\* C5: every step of writeStorage, whether it succeeds, fails or is the last
\* one the process takes, leaves the file at the storage path as it was (the
\* document before the operation) or replaces it by the complete document of
\* the operation; the file is never partly written.
C5_WriteIsAllOrNothing ==
    [][\A p \in Procs :
          (InWriteStorage(p) /\ pc'[p] # pc[p]) =>
              /\ file'.kind # "partial"
              /\ \/ file' = file
                 \/ /\ pc[p] = "rename"
                    /\ pc'[p] = "returned"
                    /\ file' = JsonFile(JSONstringify(mem[p]))]_vars

C5_Witness ==
    /\ pc[1] = "threw"
    /\ ret[1].tag = "ENOSPC"
    /\ temp.kind = "partial"
    /\ file.kind = "json"
    /\ Len(file.doc.diaries) = 1
    /\ op[1].kind = "save"

\* C6: when updateDiary on an existing id has written, the entry at that
\* position has the id and the createdAt it had before, also when the update
\* fields carry an id and a createdAt of their own, and every other stored
\* entry is as it was.
C6_UpdateKeepsIdAndCreatedAt ==
    [][\A p \in Procs :
          (op[p].kind = "update" /\ pc[p] = "rename" /\ pc'[p] = "returned") =>
              LET old == file.doc.diaries
                  new == file'.doc.diaries
                  i == FindIndex(old, op[p].id)
              IN  /\ file.kind = "json" /\ file'.kind = "json"
                  /\ i \in DOMAIN old
                  /\ Len(new) = Len(old)
                  /\ Get(new[i], "id") = Get(old[i], "id")
                  /\ Get(new[i], "createdAt") = Get(old[i], "createdAt")
                  /\ \A j \in DOMAIN old : j # i => new[j] = old[j]
                  /\ Get(ret'[p].entry, "id") = Get(old[i], "id")
                  /\ Get(ret'[p].entry, "createdAt") = Get(old[i], "createdAt")]_vars

C6_Witness ==
    /\ pc[1] = "returned"
    /\ op[1].kind = "update"
    /\ ret[1].tag = "entry"
    /\ "id" \in DOMAIN op[1].entry
    /\ "createdAt" \in DOMAIN op[1].entry
    /\ op[1].entry["id"] # Get(ret[1].entry, "id")
    /\ op[1].entry["createdAt"] # Get(ret[1].entry, "createdAt")
    /\ file.kind = "json"
    /\ Len(file.doc.diaries) = 2

\* C7: no operation reassigns the id of an existing entry: after a write, every
\* id in storage was in storage before the write, except the id of the entry a
\* save has just appended.
C7_IdsNeverReassigned ==
    [][\A p \in Procs :
          (pc[p] = "rename" /\ pc'[p] = "returned") =>
              LET old == IF file.kind = "json" THEN file.doc.diaries ELSE <<>>
                  new == file'.doc.diaries
                  kept == IF op[p].kind = "save" THEN 1..(Len(new) - 1) ELSE DOMAIN new
              IN  \A j \in kept :
                     \E i \in DOMAIN old : Get(old[i], "id") = Get(new[j], "id")]_vars

\* C8: deleteDiary with an id that no stored entry has returns false as soon
\* as the load has resolved, and that step writes nothing: the file (its
\* lastModified included), the temp file and the directory are as before, and
\* a missing file stays missing.
C8_DeleteUnknownIdWritesNothing ==
    [][\A p \in Procs :
          (op[p].kind = "delete" /\ pc[p] = "load" /\ pc'[p] # "load"
              /\ op[p].id \notin StoredIds) =>
              /\ pc'[p] = "returned"
              /\ ret'[p].status = "returned"
              /\ ret'[p].tag = "false"
              /\ file' = file
              /\ temp' = temp
              /\ dir' = dir]_vars

C8_Witness ==
    /\ pc[1] = "returned"
    /\ op[1].kind = "delete"
    /\ ret[1].tag = "false"
    /\ op[1].id \notin StoredIds
    /\ file.kind = "json"
    /\ Len(file.doc.diaries) = 2

RoundTripFields == {"date", "audioText", "imagePath", "prompt", "style", "mood"}

\* C9: when saveDiary has written, loadDiaries returns the entries it returned
\* before the save, unchanged and in the same order, followed by one new entry
\* whose date, audioText, imagePath, prompt, style and mood are those of the
\* input and whose id and createdAt are non-empty strings.
C9_SaveThenLoadRoundTrips ==
    [][\A p \in Procs :
          (op[p].kind = "save" /\ pc[p] = "rename" /\ pc'[p] = "returned") =>
              LET before == loadDiaries(file, now).storage.diaries
                  loaded == loadDiaries(file', now')
                  after == loaded.storage.diaries
              IN  /\ loaded.ok
                  /\ Len(after) = Len(before) + 1
                  /\ SubSeq(after, 1, Len(before)) = before
                  /\ \A f \in RoundTripFields :
                        Get(after[Len(after)], f) = Get(op[p].entry, f)
                  /\ Get(after[Len(after)], "id") \notin {Undefined, <<>>}
                  /\ Get(after[Len(after)], "createdAt") \notin {Undefined, <<>>}]_vars

C9_Witness ==
    /\ pc[1] = "returned"
    /\ op[1].kind = "save"
    /\ file.kind = "json"
    /\ Len(file.doc.diaries) = 2
    /\ "style" \in DOMAIN op[1].entry
    /\ op[1].entry["style"] = Undefined
    /\ "style" \notin DOMAIN file.doc.diaries[2]
    /\ Get(file.doc.diaries[1], "style") # Undefined

BlankOrMissing(v) == v = Undefined \/ Trim(v) = <<>>

FailsValidation(e) ==
    \/ BlankOrMissing(Get(e, "audioText"))
    \/ BlankOrMissing(Get(e, "imagePath"))
    \/ BlankOrMissing(Get(e, "prompt"))
    \/ ~MatchesDatePattern(Get(e, "date"))

ValidationMessages ==
    {"audioText is required and cannot be empty",
     "imagePath is required and cannot be empty",
     "prompt is required and cannot be empty",
     "date must be in YYYY-MM-DD format"}

C11_UpdateUnknownIdReturnsNull ==
    [][\A p \in Procs :
          (op[p].kind = "update" /\ pc[p] = "load" /\ pc'[p] # "load"
              /\ op[p].id \notin StoredIds) =>
              /\ pc'[p] = "returned"
              /\ ret'[p].status = "returned"
              /\ ret'[p].tag = "null"
              /\ file' = file
              /\ temp' = temp
              /\ dir' = dir]_vars

C11_Witness ==
    /\ pc[1] = "returned"
    /\ op[1].kind = "update"
    /\ ret[1].tag = "null"
    /\ op[1].id \notin StoredIds
    /\ FailsValidation(op[1].entry)
    /\ file.kind = "json"
    /\ Len(file.doc.diaries) = 1

\* C12: updateDiary on an existing id, with update fields whose merge over the
\* stored entry passes validation, goes on to write the stored entry with the
\* supplied fields overwritten: validation is applied to the merged record.
C12_PartialUpdateSucceeds ==
    [][\A p \in Procs :
          (op[p].kind = "update" /\ pc[p] = "load" /\ pc'[p] # "load"
              /\ op[p].id \in StoredIds
              /\ ~FailsValidation(
                    Spread(file.doc.diaries[FindIndex(file.doc.diaries, op[p].id)],
                           op[p].entry))) =>
              LET i == FindIndex(file.doc.diaries, op[p].id)
              IN  /\ pc'[p] = "mkdir"
                  /\ \A k \in DOMAIN op[p].entry \ {"id", "createdAt", "updatedAt"} :
                        Get(mem'[p].diaries[i], k) = op[p].entry[k]
                  /\ \A k \in DOMAIN file.doc.diaries[i] \ (DOMAIN op[p].entry \cup {"updatedAt"}) :
                        Get(mem'[p].diaries[i], k) = file.doc.diaries[i][k]]_vars

C14_SavedIdsAreUnique ==
    [][\A p \in Procs :
          (op[p].kind = "save" /\ pc[p] = "rename" /\ pc'[p] = "returned") =>
              /\ Get(ret'[p].entry, "id") \notin StoredIds
              /\ \A i, j \in DOMAIN file'.doc.diaries :
                    i # j => Get(file'.doc.diaries[i], "id") # Get(file'.doc.diaries[j], "id")]_vars

\* C20: while the storage file is malformed JSON or has no diaries array, the
\* load of every operation raises an error (it does not answer with an empty
\* storage), so a save, update or delete on it fails before any write: the
\* file stays as it is and no temporary file is written.
C20_UnreadableFileIsNotOverwritten ==
    [][(file \in UnreadableFiles) =>
          /\ file' = file
          /\ temp' = temp
          /\ \A p \in Procs :
                /\ pc'[p] \notin {"mkdir", "writeFile", "rename"}
                /\ (pc[p] = "load" /\ pc'[p] # "load") =>
                      /\ pc'[p] = "threw"
                      /\ ret'[p].status = "threw"
                      /\ ret'[p].tag = (IF file = NoDiariesFile
                                           THEN "Invalid storage format"
                                           ELSE "SyntaxError")]_vars

C20_Witness ==
    /\ file = NoDiariesFile
    /\ calls = 3
    /\ pc[1] = "threw"
    /\ op[1].kind = "save"
    /\ op[1].entry = ValidEntry1
    /\ ret[1].tag = "Invalid storage format"

(***************************************************************************)
(* Claims about the query operations (checked under SpecQuery)            *)
(***************************************************************************)
\* C16: listDiaries with a limit n >= 1 answers the first min(n, m) entries of
\* the sequence obtained by filtering the stored entries (m of them match)
\* and then sorting those: the filter comes first, then the sort, then the
\* limit.
C16_FilterThenSortThenLimit ==
    (/\ query.kind = "list"
     /\ answer.status = "returned"
     /\ query.options # <<>>
     /\ query.options[1].limit # <<>>
     /\ query.options[1].limit[1] >= 1) =>
        LET o == query.options[1]
            n == o.limit[1]
            stored == loadDiaries(file, now).storage.diaries
            matching == IF o.filter = <<>> THEN stored
                        ELSE SelectSeq(stored, LAMBDA e : matchesFilter(e, o.filter[1]))
            sorted == IF o.sort = <<>> THEN matching ELSE sortEntries(matching, o.sort[1])
            m == Len(matching)
            least == IF n < m THEN n ELSE m
        IN  /\ Len(answer.value) = least
            /\ answer.value = SubSeq(sorted, 1, least)

C16_Witness ==
    /\ query.kind = "list"
    /\ answer.status = "returned"
    /\ query.options # <<>>
    /\ query.options[1].limit = <<1>>
    /\ query.options[1].filter = <<Obj([mood |-> <<"h">>])>>
    /\ query.options[1].sort = <<[field |-> <<"date">>, order |-> <<"desc">>]>>
    /\ file = JsonFile([version |-> STORAGE_VERSION,
                        diaries |-> <<QueryEntry2, QueryEntry1, QueryEntry4>>,
                        lastModified |-> ToISOString(3)])
    /\ answer.value = <<QueryEntry4>>

\* C17: listDiaries sorted by date and not limited answers a permutation of
\* the entries that match the filter, with dates that never decrease from one
\* entry to the next when the order is asc and never increase when it is desc.
C17_SortedByDateIsOrderedPermutation ==
    (/\ query.kind = "list"
     /\ answer.status = "returned"
     /\ query.options # <<>>
     /\ query.options[1].limit = <<>>
     /\ query.options[1].sort # <<>>
     /\ query.options[1].sort[1].field = <<"date">>
     /\ query.options[1].sort[1].order # <<>>) =>
        LET o == query.options[1]
            r == answer.value
            stored == loadDiaries(file, now).storage.diaries
            matching == IF o.filter = <<>> THEN stored
                        ELSE SelectSeq(stored, LAMBDA e : matchesFilter(e, o.filter[1]))
        IN  /\ Len(r) = Len(matching)
            /\ \A e \in QueryEntries :
                  Cardinality({i \in DOMAIN r : r[i] = e})
                      = Cardinality({i \in DOMAIN matching : matching[i] = e})
            /\ \A i \in 1..(Len(r) - 1) :
                  IF o.sort[1].order = <<"asc">>
                      THEN ~StringLess(Get(r[i + 1], "date"), Get(r[i], "date"))
                      ELSE ~StringLess(Get(r[i], "date"), Get(r[i + 1], "date"))

C17_Witness ==
    /\ query.kind = "list"
    /\ answer.status = "returned"
    /\ query.options # <<>>
    /\ query.options[1].limit = <<>>
    /\ query.options[1].filter = <<>>
    /\ query.options[1].sort = <<[field |-> <<"date">>, order |-> <<"asc">>]>>
    /\ file.kind = "json"
    /\ file.doc.diaries = <<QueryEntry4, QueryEntry1, QueryEntry2>>
    /\ answer.value = <<QueryEntry2, QueryEntry1, QueryEntry4>>

\* the key an entry is sorted by: the field, or createdAt for an entry without it
SortKeyOf(e, field) ==
    IF field \in DOMAIN e /\ e[field] # <<>> THEN e[field] ELSE e["createdAt"]

\* r never decreases (asc) or never increases (desc) in the key of the field
OrderedBy(r, field, order) ==
    \A i \in 1..(Len(r) - 1) :
        IF order = "asc"
            THEN ~StringLess(SortKeyOf(r[i + 1], field), SortKeyOf(r[i], field))
            ELSE ~StringLess(SortKeyOf(r[i], field), SortKeyOf(r[i + 1], field))

\* the sort specification of the list query, if it has one
SortOf(q) == IF q.options = <<>> THEN <<>> ELSE q.options[1].sort

C29_UpdatedAtFallsBackToCreatedAt ==
    (/\ query.kind = "list"
     /\ answer.status = "returned"
     /\ SortOf(query) # <<>>
     /\ SortOf(query)[1].field = <<"updatedAt">>) =>
        LET r == answer.value
            key == [i \in DOMAIN r |->
                       IF "updatedAt" \in DOMAIN r[i] THEN r[i]["updatedAt"]
                       ELSE r[i]["createdAt"]]
        IN  \A i \in 1..(Len(r) - 1) :
                IF SortOf(query)[1].order = <<"asc">>
                    THEN ~StringLess(key[i + 1], key[i])
                    ELSE ~StringLess(key[i], key[i + 1])

\* two entries without updatedAt are placed by their createdAt around and
\* before entries that have an updatedAt
C29_Witness ==
    /\ query.kind = "list"
    /\ answer.status = "returned"
    /\ query.options # <<>>
    /\ query.options[1].sort = <<[field |-> <<"updatedAt">>, order |-> <<"asc">>]>>
    /\ query.options[1].filter = <<>>
    /\ query.options[1].limit = <<>>
    /\ file.kind = "json"
    /\ file.doc.diaries = <<QueryEntry2, QueryEntry3, QueryEntry1>>
    /\ "updatedAt" \notin DOMAIN QueryEntry1
    /\ "updatedAt" \notin DOMAIN QueryEntry3
    /\ answer.value = <<QueryEntry1, QueryEntry3, QueryEntry2>>

\* C33: every entry searchDiaries(searchText, options) answers has searchText
\* in its audioText or in its prompt, whatever the case of the letters and
\* whatever options.filter holds (a searchText key of its own, set or
\* undefined, included), and satisfies the style of options.filter as well.
C33_SearchTextAlwaysApplies ==
    (query.kind = "search" /\ answer.status = "returned") =>
        \A i \in DOMAIN answer.value :
            LET e == answer.value[i]
                wanted == toLowerCase(query.arg)
                given == IF query.options = <<>> \/ query.options[1].filter = <<>>
                             THEN EmptyObject
                             ELSE query.options[1].filter[1]
            IN  /\ \/ StringIncludes(toLowerCase(e["audioText"]), wanted)
                   \/ StringIncludes(toLowerCase(e["prompt"]), wanted)
                /\ "style" \in DOMAIN given => Get(e, "style") = given["style"]

\* C34: listDiaries given a limit n >= 0 answers at most n entries, n = 0
\* included.
C34_AtMostLimitEntries ==
    (/\ query.kind = "list"
     /\ answer.status = "returned"
     /\ query.options # <<>>
     /\ query.options[1].limit # <<>>) =>
        Len(answer.value) <= query.options[1].limit[1]

\* C18: listDiaries with a filter and no limit answers exactly the stored
\* entries that satisfy every predicate the filter carries: startDate <= date,
\* date <= endDate, the search text found in audioText or in prompt whatever
\* the case of the letters, style equal, mood equal; an entry without style
\* (mood) is never in the answer to a filter carrying a style (mood).
C18_FilterIsConjunction ==
    (/\ query.kind = "list"
     /\ answer.status = "returned"
     /\ query.options # <<>>
     /\ query.options[1].limit = <<>>
     /\ query.options[1].filter # <<>>) =>
        LET f == query.options[1].filter[1]
            r == answer.value
            stored == loadDiaries(file, now).storage.diaries
            Found(text, sub) ==
                \E i \in 1..Len(text) :
                    /\ i + Len(sub) - 1 <= Len(text)
                    /\ \A k \in 1..Len(sub) :
                          toLowerCase(<<text[i + k - 1]>>) = toLowerCase(<<sub[k]>>)
            Satisfies(e) ==
                /\ "startDate" \in DOMAIN f =>
                      (e["date"] = f["startDate"] \/ StringLess(f["startDate"], e["date"]))
                /\ "endDate" \in DOMAIN f =>
                      (e["date"] = f["endDate"] \/ StringLess(e["date"], f["endDate"]))
                /\ "searchText" \in DOMAIN f =>
                      (Found(e["audioText"], f["searchText"])
                          \/ Found(e["prompt"], f["searchText"]))
                /\ "style" \in DOMAIN f => ("style" \in DOMAIN e /\ e["style"] = f["style"])
                /\ "mood" \in DOMAIN f => ("mood" \in DOMAIN e /\ e["mood"] = f["mood"])
        IN  /\ \A i \in DOMAIN stored :
                  Satisfies(stored[i]) <=> (\E j \in DOMAIN r : r[j] = stored[i])
            /\ Len(r) = Cardinality({i \in DOMAIN stored : Satisfies(stored[i])})

C18_Witness ==
    /\ query.kind = "list"
    /\ answer.status = "returned"
    /\ query.options # <<>>
    /\ query.options[1].limit = <<>>
    /\ query.options[1].filter # <<>>
    /\ DOMAIN query.options[1].filter[1]
          = {"startDate", "endDate", "searchText", "style", "mood"}
    /\ file.kind = "json"
    /\ file.doc.diaries = <<QueryEntry3, QueryEntry2, QueryEntry1>>
    /\ answer.value = <<QueryEntry1>>

\* C19: while there is no file at the storage path, loadDiaries and every
\* query built on it (list, get by id, search, by date, statistics) answer
\* without an error as on an empty storage (the version stamped, no entries),
\* and no file, temporary file or directory is created.
C19_MissingFileReadsAsEmpty ==
    [][(file = NoFile) =>
          /\ file' = NoFile
          /\ temp' = temp
          /\ dir' = dir
          /\ answer'.status # "none" =>
                /\ answer'.status = "returned"
                /\ IF query'.kind = "load"
                       THEN /\ answer'.value.version = STORAGE_VERSION
                            /\ answer'.value.diaries = <<>>
                   ELSE IF query'.kind = "stats"
                       THEN /\ answer'.value.totalEntries = 0
                            /\ answer'.value.dateRange = <<>>
                            /\ answer'.value.styleCounts = EmptyObject
                   ELSE answer'.value = <<>>]_vars

C19_Witness ==
    /\ file = NoFile
    /\ temp = NoFile
    /\ dir = FALSE
    /\ query.kind = "search"
    /\ query.options # <<>>
    /\ answer.status = "returned"
    /\ answer.value = <<>>

\* C27: deleteDiary with an id that a stored entry has does not answer false,
\* and when it has written it returns true and the file holds the entries it
\* held before without one entry that has the id: the entries before and after
\* the removed one are the same, in the same order.
C27_DeleteRemovesOneEntry ==
    [][\A p \in Procs :
          /\ (op[p].kind = "delete" /\ pc[p] = "load" /\ pc'[p] # "load"
                 /\ op[p].id \in StoredIds) =>
                 ~(pc'[p] = "returned" /\ ret'[p].tag = "false")
          /\ (op[p].kind = "delete" /\ pc[p] = "rename" /\ pc'[p] = "returned") =>
                 LET old == file.doc.diaries
                     new == file'.doc.diaries
                 IN  /\ ret'[p].status = "returned"
                     /\ ret'[p].tag = "true"
                     /\ Len(new) = Len(old) - 1
                     /\ \E i \in DOMAIN old :
                           /\ Get(old[i], "id") = op[p].id
                           /\ \A j \in 1..(i - 1) : new[j] = old[j]
                           /\ \A j \in i..Len(new) : new[j] = old[j + 1]]_vars

\* a delete has returned true and left the one other entry in the file
C27_Witness ==
    /\ pc[1] = "returned"
    /\ op[1].kind = "delete"
    /\ ret[1].tag = "true"
    /\ file.kind = "json"
    /\ Len(file.doc.diaries) = 1
    /\ calls = 3

(***************************************************************************)
(* Claims about concurrent invocations (checked under SpecRace)           *)
(***************************************************************************)
\* C15: when two saveDiary calls have loaded the same stored entries (both
\* read before either wrote) and the second of them to rename succeeds after
\* the first has returned successfully, the file becomes the document of that
\* last writer: the loaded entries and its own new entry only, one new entry
\* instead of two although both saves returned an entry.
C15_LastWriterWins ==
    [][\A p, q \in Procs :
          (/\ p # q
           /\ op[p].kind = "save" /\ op[q].kind = "save"
           /\ pc[q] = "returned" /\ ret[q].status = "returned"
           /\ pc[p] = "rename" /\ pc'[p] = "returned"
           /\ Len(mem[p].diaries) = Len(mem[q].diaries)
           /\ SubSeq(mem[p].diaries, 1, Len(mem[p].diaries) - 1)
                 = SubSeq(mem[q].diaries, 1, Len(mem[q].diaries) - 1)) =>
              LET loaded == SubSeq(mem[p].diaries, 1, Len(mem[p].diaries) - 1)
              IN  /\ ret'[p].status = "returned"
                  /\ ret'[p].tag = "entry"
                  /\ file' = JsonFile(JSONstringify(mem[p]))
                  /\ file'.doc.diaries = Append(loaded, StringifyEntry(ret[p].entry))
                  /\ Len(file'.doc.diaries) = Len(loaded) + 1]_vars

C15_Witness ==
    /\ pc[1] = "returned" /\ pc[2] = "returned"
    /\ op[1].kind = "save" /\ op[2].kind = "save"
    /\ ret[1].tag = "entry" /\ ret[2].tag = "entry"
    /\ mem[1].diaries = <<ret[1].entry>>
    /\ mem[2].diaries = <<ret[2].entry>>
    /\ Get(ret[1].entry, "id") # Get(ret[2].entry, "id")
    /\ file.kind = "json"
    /\ file.doc.diaries = <<StringifyEntry(ret[2].entry)>>
    /\ Get(ret[1].entry, "id") \notin StoredIds

\* C31: with two invocations writing concurrently, every rename that succeeds
\* publishes the document its own invocation wrote to the temp file, and no
\* rename fails because the temp file is missing: the temp file of a writer
\* is never overwritten or consumed by the other writer.
C31_TempFileIsPrivate ==
    [][\A p \in Procs :
          /\ (pc[p] = "rename" /\ pc'[p] = "returned") =>
                 file' = JsonFile(JSONstringify(mem[p]))
          /\ (pc[p] = "rename" /\ pc'[p] = "threw") =>
                 ret'[p].tag # "ENOENT"]_vars

(***************************************************************************)
(* Termination of generateImage (checked under SpecRetryFair)             *)
(***************************************************************************)
\* C30: whatever maxRetries is and whatever the remote calls answer, a
\* generateImage that is awaiting a remote call or a backoff sleep comes to
\* return a response or to throw an error, when every call and every sleep
\* completes.
C30_GenerateImageSettles ==
    (rpc \in {"call", "sleep"}) ~> (rpc \in {"returned", "thrown"})

\* generateImage has thrown after using up maxRetries = MaxRetriesBound
\* retries, each after a sleep
C30_Witness ==
    /\ rpc = "thrown"
    /\ config.maxRetries = MaxRetriesBound
    /\ attempt = MaxRetriesBound
    /\ Len(log) = 2 * MaxRetriesBound + 1
    /\ result.status = "thrown"

(***************************************************************************)
(* Claims about the error taxonomy (checked under SpecRetry)              *)
(***************************************************************************)
\* C21 as stated: every failed remote call is classified into one kind with
\* its fixed code and retryable flag (401 or 403: auth; otherwise 429: rate
\* limit; otherwise ECONNREFUSED or ENOTFOUND: network; anything else:
\* request), and the call is followed by a retry if and only if the flag is
\* true.
C21_RetriedIffRetryable ==
    \A i \in CallIndices :
        log[i].raw.t # "response" =>
            LET m == log[i].raw.message
                e == log[i].out
                kind == IF log[i].raw.t # "throwError" THEN "GeminiRequestError"
                        ELSE IF "401" \in {m[k] : k \in DOMAIN m}
                                \/ "403" \in {m[k] : k \in DOMAIN m}
                            THEN "GeminiAuthError"
                        ELSE IF "429" \in {m[k] : k \in DOMAIN m}
                            THEN "GeminiRateLimitError"
                        ELSE IF "ECONNREFUSED" \in {m[k] : k \in DOMAIN m}
                                \/ "ENOTFOUND" \in {m[k] : k \in DOMAIN m}
                            THEN "GeminiNetworkError"
                        ELSE "GeminiRequestError"
            IN  /\ e.t = "error"
                /\ e.name = kind
                /\ <<e.name, e.code, e.retryable>> \in
                      {<<"GeminiAuthError", "AUTH_ERROR", FALSE>>,
                       <<"GeminiRateLimitError", "RATE_LIMIT", TRUE>>,
                       <<"GeminiNetworkError", "NETWORK_ERROR", TRUE>>,
                       <<"GeminiRequestError", "REQUEST_ERROR", FALSE>>}
                /\ (i < Len(log)) <=> e.retryable

\* C21 amended: the same classification, and the call is followed by a retry
\* (a backoff sleep, then the next call) if and only if the flag is true and
\* the attempt is not the last one allowed (attempt < maxRetries).
C21_RetriedIffRetryableAndAttemptsLeft ==
    \A i \in CallIndices :
        log[i].raw.t # "response" =>
            LET m == log[i].raw.message
                e == log[i].out
                kind == IF log[i].raw.t # "throwError" THEN "GeminiRequestError"
                        ELSE IF "401" \in {m[k] : k \in DOMAIN m}
                                \/ "403" \in {m[k] : k \in DOMAIN m}
                            THEN "GeminiAuthError"
                        ELSE IF "429" \in {m[k] : k \in DOMAIN m}
                            THEN "GeminiRateLimitError"
                        ELSE IF "ECONNREFUSED" \in {m[k] : k \in DOMAIN m}
                                \/ "ENOTFOUND" \in {m[k] : k \in DOMAIN m}
                            THEN "GeminiNetworkError"
                        ELSE "GeminiRequestError"
            IN  /\ e.t = "error"
                /\ e.name = kind
                /\ <<e.name, e.code, e.retryable>> \in
                      {<<"GeminiAuthError", "AUTH_ERROR", FALSE>>,
                       <<"GeminiRateLimitError", "RATE_LIMIT", TRUE>>,
                       <<"GeminiNetworkError", "NETWORK_ERROR", TRUE>>,
                       <<"GeminiRequestError", "REQUEST_ERROR", FALSE>>}
                /\ (i < Len(log)) <=> (e.retryable /\ log[i].attempt < config.maxRetries)
                /\ (i < Len(log)) => log[i + 1].ev = "sleep"
                /\ (i + 1 < Len(log)) =>
                      (log[i + 2].ev = "call" /\ log[i + 2].attempt = log[i].attempt + 1)

C21_Witness ==
    /\ rpc = "thrown"
    /\ config.maxRetries = 2
    /\ Len(log) = 5
    /\ log[1].raw.message = <<"ECONNREFUSED", "429">>
    /\ log[1].out.name = "GeminiRateLimitError"
    /\ log[3].raw.message = <<"getaddrinfo", "ENOTFOUND">>
    /\ log[3].out.name = "GeminiNetworkError"
    /\ log[5].raw.message = <<"HTTP", "429", "then", "401">>
    /\ log[5].out.name = "GeminiAuthError"

(***************************************************************************)
(* Claims about the command line (checked under SpecCli)                  *)
(***************************************************************************)
\* C22: when the record command or the generate command has ended with
\* status 0, storage holds one entry more than when the command started
\* (there was none): the command has saved its result as a new entry.
C22_CommandPersistsEntry ==
    (cli.cmd \in {"record", "generate"} /\ cli.at = "exited" /\ cli.status = 0) =>
        /\ file.kind = "json"
        /\ Len(file.doc.diaries) = 1

\* C23: once the record command has been run without OPENAI_API_KEY, or the
\* generate command without GEMINI_API_KEY (absent or empty), the process has
\* exited with status 1 and nothing else has happened: no directory made, no
\* recording, no remote call, no storage operation or query, no file.
C23_NoCredentialExitsFirst ==
    (\/ cli.cmd = "record" /\ ~Truthy(cli.env.OPENAI_API_KEY)
     \/ cli.cmd = "generate" /\ ~Truthy(cli.env.GEMINI_API_KEY)) =>
        /\ cli.at = "exited"
        /\ cli.status = 1
        /\ cli.fx = <<>>
        /\ log = <<>>
        /\ rpc = "idle"
        /\ \A p \in Procs : pc[p] = "idle"
        /\ calls = 0
        /\ query = NoQuery
        /\ file = NoFile /\ temp = NoFile /\ dir = FALSE

C23_Witness ==
    /\ cli.cmd = "generate"
    /\ cli.env.GEMINI_API_KEY = <<"">>
    /\ cli.env.OPENAI_API_KEY = <<"k">>
    /\ cli.at = "exited"
    /\ cli.status = 1
    /\ log = <<>>

\* C24: getStorageStats answers totalEntries = the number of stored entries;
\* dateRange is null exactly when there is none, and otherwise earliest is the
\* least and latest the greatest date among the entries; styleCounts has one
\* key per style that some entry has, its value the number of entries with
\* that style, so that the values add up to the number of entries with a style.
C24_StatsAreAggregates ==
    (query.kind = "stats" /\ answer.status = "returned") =>
        LET d == loadDiaries(file, now).storage.diaries
            stats == answer.value
            styled == {i \in DOMAIN d : "style" \in DOMAIN d[i]}
            RECURSIVE Sum(_, _)
            Sum(f, keys) ==
                IF keys = {} THEN 0
                ELSE LET k == CHOOSE x \in keys : TRUE
                     IN  f[k] + Sum(f, keys \ {k})
        IN  /\ stats.totalEntries = Len(d)
            /\ (stats.dateRange = <<>>) <=> (Len(d) = 0)
            /\ Len(d) > 0 =>
                  /\ \E i \in DOMAIN d : d[i]["date"] = stats.dateRange[1].earliest
                  /\ \E i \in DOMAIN d : d[i]["date"] = stats.dateRange[1].latest
                  /\ \A i \in DOMAIN d :
                        /\ ~StringLess(d[i]["date"], stats.dateRange[1].earliest)
                        /\ ~StringLess(stats.dateRange[1].latest, d[i]["date"])
            /\ DOMAIN stats.styleCounts = {d[i]["style"] : i \in styled}
            /\ \A s \in DOMAIN stats.styleCounts :
                  stats.styleCounts[s] = Cardinality({i \in styled : d[i]["style"] = s})
            /\ Sum(stats.styleCounts, DOMAIN stats.styleCounts) = Cardinality(styled)

C24_Witness ==
    /\ query.kind = "stats"
    /\ answer.status = "returned"
    /\ file.kind = "json"
    /\ file.doc.diaries = <<QueryEntry1, QueryEntry2, QueryEntry3>>
    /\ answer.value.totalEntries = 3
    /\ answer.value.dateRange = <<[earliest |-> Date2, latest |-> Date1]>>
    /\ answer.value.styleCounts[<<"w">>] = 2

(***************************************************************************)
(* Claims about the prompts module (checked under SpecPrompts)            *)
(***************************************************************************)
\* C25: validatePromptOptions returns (it never raises), and it returns true
\* if and only if userInput is not empty once trimmed and age is absent or an
\* integer from 1 to 18.
C25_ValidIffInputAndIntegerAge ==
    (query.kind = "validatePromptOptions" /\ answer.status # "none") =>
        LET o == query.options[1]
            hasInput == /\ "userInput" \in DOMAIN o
                        /\ \E i \in DOMAIN o["userInput"] : o["userInput"][i] # " "
            noAge == "age" \notin DOMAIN o \/ o["age"] = Undefined
        IN  /\ answer.status = "returned"
            /\ answer.value <=>
                  /\ hasInput
                  /\ \/ noAge
                     \/ \E n \in 1..18 : o["age"] = <<"number", 10 * n>>

\* the prompts generateVariations must return: the base, then one variation
\* per override among the first k, each built from the override merged over
\* the base options
ExpectedVariations(experiment, k) ==
    [i \in 1..(k + 1) |->
        IF i = 1
            THEN [prompt |-> Build(PromptBuilder(experiment.basePrompt)),
                  parameters |-> experiment.basePrompt,
                  version |-> <<"base">>]
            ELSE LET merged ==
                        [key \in DOMAIN experiment.basePrompt
                                    \cup DOMAIN experiment.variations[i - 1] |->
                            IF key \in DOMAIN experiment.variations[i - 1]
                                THEN experiment.variations[i - 1][key]
                                ELSE experiment.basePrompt[key]]
                 IN  [prompt |-> Build(PromptBuilder(merged)),
                      parameters |-> merged,
                      version |-> <<"variation-", Base36Chars[i]>>]]

\* C26 (as stated): generateVariations returns the prompt labelled base and
\* then variation-1, variation-2, ... for the overrides in the given order,
\* each built from the override merged over the base options, and the number
\* of prompts returned, the base included, never exceeds the configured
\* maximum count.
C26_TotalWithinMaximum ==
    (query.kind = "generateVariations" /\ answer.status = "returned") =>
        LET experiment == query.options[1]
            returned == answer.value.variations
        IN  /\ Len(returned) >= 1
            /\ Len(returned) <= Len(experiment.variations) + 1
            /\ returned = ExpectedVariations(experiment, Len(returned) - 1)
            /\ experiment.maxVariations # <<>> =>
                    Len(returned) <= experiment.maxVariations[1]

\* C26 (amended): the same, except that the maximum count caps the variations
\* and the base prompt comes on top of it: the variations returned are those
\* of the first min(number of overrides, maximum) overrides (none for a
\* maximum below one, all of them when no maximum is configured).
C26_VariationsWithinMaximum ==
    (query.kind = "generateVariations" /\ answer.status = "returned") =>
        LET experiment == query.options[1]
            returned == answer.value.variations
            given == Len(experiment.variations)
            k == IF experiment.maxVariations = <<>> THEN given
                 ELSE IF experiment.maxVariations[1] < 0 THEN 0
                 ELSE IF experiment.maxVariations[1] < given
                     THEN experiment.maxVariations[1]
                 ELSE given
        IN  /\ Len(returned) = k + 1
            /\ returned = ExpectedVariations(experiment, k)

\* three overrides capped at two: base, variation-1 and variation-2 are
\* returned, and the first variation has the override's style
C26_Witness ==
    /\ query.kind = "generateVariations"
    /\ answer.status = "returned"
    /\ Len(query.options[1].variations) = 3
    /\ query.options[1].maxVariations = <<2>>
    /\ Len(answer.value.variations) = 3
    /\ answer.value.variations[3].version = <<"variation-", "2">>
    /\ answer.value.variations[2].parameters["style"] = <<"watercolor">>
    /\ Get(query.options[1].basePrompt, "style") = <<"crayon">>

(***************************************************************************)
(* Claims about the list command (checked under SpecList)                 *)
(***************************************************************************)
\* C32: the entries the list command prints all have the date given with
\* --date, with --search and without it, and satisfy every other flag given:
\* they have the style of --style and the mood of --mood, and there are no
\* more of them than --limit says.
C32_EveryFlagIsApplied ==
    (cli.cmd = "list" /\ cli.printed # <<>>) =>
        LET flags == cli.flags[1]
            printed == cli.printed[1].entries
        IN  /\ \A i \in DOMAIN printed :
                  /\ flags.date # <<>> => printed[i]["date"] = flags.date[1]
                  /\ flags.style # <<>> => Get(printed[i], "style") = flags.style[1]
                  /\ flags.mood # <<>> => Get(printed[i], "mood") = flags.mood[1]
            /\ flags.limit # <<>> =>
                  Len(printed) <= DigitsValue(flags.limit[1], 0)

====
